---- MODULE Spec2Model ----
(***************************************************************************)
(* A model of the spotify-to-github export client: the paged fetcher       *)
(* (getAllSaved, getAllTopItems), the mutation batcher (addPlaylistTracks, *)
(* deletePlaylistTracks, chunk) and the run of main() with its playlist    *)
(* reconciliation, against a model of the remote Web API.                  *)
(***************************************************************************)
EXTENDS Integers, Sequences, FiniteSets, Bags, TLC

VARIABLES
    \* ---- getAllSaved against one offset-paginated remote collection
    collection,   \* the remote collection: a sequence of item ids
    remoteChange, \* what another client did to the collection during the call
    serverCap,    \* the largest page limit the remote serves
    pgPc,         \* position of the getAllSaved call
    pgRequests,   \* the page requests issued so far, in issue order
    pgFirst,      \* the first page's response
    pgPending,    \* indices of the follow-up requests still in flight
    pgResp,       \* follow-up index -> response received
    pgArrival,    \* follow-up indices in the order their responses arrived
    pgResult      \* what getAllSaved returned

pageVars == <<collection, remoteChange, serverCap, pgPc, pgRequests, pgFirst, pgPending,
              pgResp, pgArrival, pgResult>>

VARIABLES
    \* ---- getAllTopItems against the remote top-items endpoint
    topItems,     \* the items the remote can actually serve
    topReported,  \* the total the remote reports
    tpFaults,     \* failure responses the remote has given so far
    tpPc,         \* position of the getAllTopItems call
    tpRequests,   \* the page requests issued so far, in issue order
    tpFirst,      \* the response destructured into first49
    tpRest,       \* the response destructured into rest
    tpResult      \* what getAllTopItems returned

topVars == <<topItems, topReported, tpFaults, tpPc, tpRequests, tpFirst,
             tpRest, tpResult>>

VARIABLES
    \* ---- addPlaylistTracks / deletePlaylistTracks on one remote playlist
    mtOp,         \* "add" or "remove"
    mtForm,       \* the caller passes "string" URIs or track "object"s
    mtTracks,     \* the caller-supplied track refs
    mtRemote,     \* the remote playlist: its set of track URIs
    mtSnapshot,   \* the remote playlist's snapshot id
    mtFaults,     \* failure responses the remote has given so far
    mtPc,         \* position of the call
    mtI,          \* the chunk generator's index i
    mtCalls,      \* the batched HTTP calls issued so far, in issue order
    mtAnswers,    \* how the remote answered each call
    mtEvents,     \* calls and sleeps in the order they happened
    mtResponse    \* the local variable `response`

mutVars == <<mtOp, mtForm, mtTracks, mtRemote, mtSnapshot, mtFaults, mtPc,
             mtI, mtCalls, mtAnswers, mtEvents, mtResponse>>

VARIABLES
    \* ---- getAllFollowing against the remote's cursor chain
    followChain,  \* the sizes of the pages of followed artists the remote serves
    followEndless,\* the remote's last page carries a cursor too, to itself
    fwFaults,     \* failure responses the remote has given so far
    fwPc,         \* position of the getAllFollowing call
    fwRequests,   \* the page requests issued so far, in issue order
    fwItems,      \* const items: the items collected so far
    fwAfter,      \* let after: the cursor of the last response
    fwResult      \* what getAllFollowing returned

followVars == <<followChain, followEndless, fwFaults, fwPc, fwRequests, fwItems, fwAfter,
                fwResult>>

VARIABLES
    \* ---- Array.prototype.sort with one of the comparators
    sortKind,           \* the collection sorted, which fixes the comparator
    sortInput,          \* the array as fetched
    sortPc,             \* position of the call
    sortResult,         \* the array after sort
    sortResultPermuted, \* the result for the same items fetched in another order
    sortLoopI,          \* the playlist loop's position in the sorted playlists
    sortFetched,        \* the ids getPlaylist was called with, in call order
    sortWritten,        \* the playlists/<id> documents written, in call order
    sortMirror          \* the id of savedTracksPlaylist, UndefinedId if unset

sortVars == <<sortKind, sortInput, sortPc, sortResult, sortResultPermuted,
              sortLoopI, sortFetched, sortWritten, sortMirror>>

VARIABLES
    \* ---- the mirror test on one enumerated playlist
    mirPlaylist,  \* the playlist: its name and description
    mirPc,        \* position of the test
    mirSelected,  \* whether the playlist was taken as the mirror
    mirWritten    \* whether the playlist was written out as an ordinary one

mirrorVars == <<mirPlaylist, mirPc, mirSelected, mirWritten>>

VARIABLES
    \* ---- one run of main() after another
    runNo,        \* 1 in the first run, 2 in the run after it
    firstMirror   \* the id of the playlist the first run synchronised

rerunVars == <<runNo, firstMirror>>

VARIABLES
    \* ---- getPlaylist / getShow against one remote parent and its children
    dtKind,       \* "playlist" (getPlaylist) or "show" (getShow)
    dtParent,     \* the remote parent object, its embedded child list included
    dtChildren,   \* the remote child collection, complete
    dtPc,         \* position of the call
    dtRequests,   \* the requests issued so far, in issue order
    dtPending,    \* the requests issued and not yet answered
    dtArrival,    \* the requests answered so far, in the order of the answers
    dtFirst,      \* the first page of the children
    dtRest,       \* the follow-up pages of the children, by request
    dtTracks,     \* const tracks / const episodes: the paginated children
    dtResult      \* what the call returned

assemblyVars == <<dtKind, dtParent, dtChildren, dtPc, dtRequests, dtPending,
                  dtArrival, dtFirst, dtRest, dtTracks, dtResult>>

VARIABLES
    \* ---- main's loop over the saved shows
    slShows,      \* const shows: the ids of the saved shows, in sorted order
    slFaults,     \* failure responses the remote has given so far
    slPc,         \* position of the loop
    slI,          \* the loop's position in shows
    slWrites      \* the names writeJSON was called with, in call order

showVars == <<slShows, slFaults, slPc, slI, slWrites>>

VARIABLES
    \* ---- the earlier compareTrack applied to three saved tracks
    etTracks,     \* the three saved tracks a, b, c
    etPc,         \* "idle" before the comparisons, "done" after
    etOrder       \* the comparator's results for (a, b), (b, c), (a, c)

earlierVars == <<etTracks, etPc, etOrder>>

VARIABLES
    \* ---- one run of main(): the environment and the remote
    env,            \* process.env: the three credentials and the playlist flag
    library,        \* the remote saved tracks: a set of track URIs
    remotePlaylists,\* the remote playlists of the user, tracks included
    runFaults,      \* failure responses the remote has given so far
    \* ---- what the run has done
    requests,       \* bag of the network requests issued
    inflight,       \* the requests issued and not yet answered
    mutations,      \* the create, remove and add calls, in issue order
    writes,         \* the writeJSON calls, in call order
    sleeps,         \* the sleeps (in ms), in call order
    \* ---- the local state of main()
    pc,             \* position in main()
    accessToken,    \* the bearer token createClient holds
    tracks,         \* const tracks: the saved tracks as fetched and sorted
    playlists,      \* let playlists: the enumerated (and filtered) playlists
    idx,            \* position of the playlist or show loop
    savedTracksPlaylist,
    savedTracksPlaylistFull,
    playlistTrackUris,
    savedTrackUris,
    topPc,          \* position of getAllTopArtists and of getAllTopTracks
    topOk,          \* whether each of them destructured a first page
    mutationTracks,    \* the URIs handed to the running mutation
    chunkI,         \* the chunk generator's index in the running mutation
    thrown          \* the error main() rejected with

runVars == <<env, library, remotePlaylists, runFaults, requests, inflight,
             mutations, writes, sleeps, pc, accessToken, tracks, playlists,
             idx, savedTracksPlaylist, savedTracksPlaylistFull,
             playlistTrackUris, savedTrackUris, topPc, topOk, mutationTracks,
             chunkI, thrown>>

vars == <<pageVars, topVars, mutVars, followVars, sortVars, mirrorVars,
          runVars, rerunVars, assemblyVars, showVars, earlierVars>>

\* What an action of one component leaves alone: the other components.
notPage == <<topVars, mutVars, followVars, sortVars, mirrorVars, runVars,
    rerunVars, assemblyVars, showVars, earlierVars>>
notTop == <<pageVars, mutVars, followVars, sortVars, mirrorVars, runVars,
    rerunVars, assemblyVars, showVars, earlierVars>>
notMut == <<pageVars, topVars, followVars, sortVars, mirrorVars, runVars,
    rerunVars, assemblyVars, showVars, earlierVars>>
notFollow == <<pageVars, topVars, mutVars, sortVars, mirrorVars, runVars,
    rerunVars, assemblyVars, showVars, earlierVars>>
notSort == <<pageVars, topVars, mutVars, followVars, mirrorVars, runVars,
    rerunVars, assemblyVars, showVars, earlierVars>>
notMirror == <<pageVars, topVars, mutVars, followVars, sortVars, runVars,
    rerunVars, assemblyVars, showVars, earlierVars>>
notRun == <<pageVars, topVars, mutVars, followVars, sortVars, mirrorVars,
    rerunVars, assemblyVars, showVars, earlierVars>>
notAssembly == <<pageVars, topVars, mutVars, followVars, sortVars,
    mirrorVars, runVars, rerunVars, showVars, earlierVars>>
notShow == <<pageVars, topVars, mutVars, followVars, sortVars, mirrorVars,
    runVars, rerunVars, assemblyVars, earlierVars>>
notEarlier == <<pageVars, topVars, mutVars, followVars, sortVars, mirrorVars,
    runVars, rerunVars, assemblyVars, showVars>>

----------------------------------------------------------------------------
(* Bounds of the model and constants of the program.                       *)

\* The largest remote collection the paged fetcher is run against.
MaxTotal == 101

\* The page size getAllSaved asks for, and the divisor of its page count.
PageLimit == 50

\* The page limits the remote may cap a request to.
ServerCaps == {25, 50}

\* The most items the top-items endpoint can serve.
MaxTop == 99

\* The totals the top-items endpoint may report.
TopReportedTotals == {0, 50, 99, 1000}

\* The most track refs one mutation call is given.
MaxRefs == 250

\* The most failure responses the remote gives in one behaviour.
MaxFaults == 1

\* How the remote answers a request: with a success, with a non-success
\* status and a JSON error body, or with a non-success status and a body that
\* is not JSON (response.json() then rejects).
Answers(faults) ==
    IF faults < MaxFaults THEN {"ok", "errJson", "nonJson"} ELSE {"ok"}

Fault(kind) == IF kind = "ok" THEN 0 ELSE 1

Min(a, b) == IF a <= b THEN a ELSE b

Range(s) == {s[i] : i \in 1..Len(s)}

NoDuplicates(s) == \A i, j \in 1..Len(s) : s[i] = s[j] => i = j

RECURSIVE Flatten(_)
\* Array.prototype.flat over a sequence of item sequences.
Flatten(ss) == IF ss = <<>> THEN <<>> ELSE Head(ss) \o Flatten(Tail(ss))

----------------------------------------------------------------------------
(* The remote: an offset-paginated collection endpoint.                    *)

\* The paging object the remote answers a (limit, offset) request with.
PagingObject(coll, limit, offset) ==
    LET served == Min(limit, serverCap)
    IN  [items  |-> SubSeq(coll, offset + 1, Min(offset + served, Len(coll))),
         limit  |-> served,
         total  |-> Len(coll)]

----------------------------------------------------------------------------
(* getAllSaved                                                             *)

\* The mutant of FollowUpOffset: page i addressed from the first page again.
FollowUpOffsetOffByOne(i, limit) == (i - 1) * limit

\* The offset of follow-up request i: `${i * limit}`.
FollowUpOffset(i, limit) == i * limit

\* The mutant of FollowUpCount: the page count rounded up.
FollowUpCountCeil(total) == (total + PageLimit - 1) \div PageLimit

\* The number of follow-up requests: the loop bound Math.floor(total / 50).
FollowUpCount(total) == total \div PageLimit

\* The follow-up requests pushed by the loop, in issue order.
FollowUpRequests(first) ==
    [i \in 1..FollowUpCount(first.total) |->
        [limit |-> first.limit, offset |-> FollowUpOffset(i, first.limit)]]

\* getAllSaved is called: the first page request (limit 50, no offset, which
\* the remote reads as offset 0) is issued.
PgCall ==
    /\ UNCHANGED notPage
    /\ pgPc = "idle"
    /\ pgRequests' = <<[limit |-> PageLimit, offset |-> 0]>>
    /\ pgPc' = "first"
    /\ UNCHANGED <<collection, remoteChange, serverCap, pgFirst, pgPending, pgResp,
                   pgArrival, pgResult>>

\* The first page arrives; the loop issues every follow-up request at once.
PgFirstResponse ==
    /\ UNCHANGED notPage
    /\ pgPc = "first"
    /\ LET first == PagingObject(collection, pgRequests[1].limit,
                                 pgRequests[1].offset)
           more  == FollowUpRequests(first)
       IN  /\ pgFirst' = first
           /\ pgRequests' = pgRequests \o more
           /\ pgPending' = 1..Len(more)
    /\ pgPc' = "rest"
    /\ UNCHANGED <<collection, remoteChange, serverCap, pgResp, pgArrival,
                   pgResult>>

\* The response to follow-up request i arrives (in any order).
PgFollowResponse(i) ==
    /\ UNCHANGED notPage
    /\ pgPc = "rest"
    /\ i \in pgPending
    /\ pgResp' = [pgResp EXCEPT ![i] =
                    PagingObject(collection, pgRequests[i + 1].limit,
                                 pgRequests[i + 1].offset)]
    /\ pgPending' = pgPending \ {i}
    /\ pgArrival' = Append(pgArrival, i)
    /\ UNCHANGED <<collection, remoteChange, serverCap, pgPc, pgRequests,
                   pgFirst, pgResult>>

\* The mutant of RestItems: the follow-up pages are joined in the order
\* their responses arrived.
RestItemsByArrival(n) == Flatten([i \in 1..n |-> pgResp[pgArrival[i]].items])

\* (await Promise.all(promises)).map((r) => r.items).flat(): Promise.all
\* resolves to the responses in the order of the promises.
RestItems(n) == Flatten([i \in 1..n |-> pgResp[i].items])

\* Promise.all resolves: the follow-up items are flattened in request order
\* and appended to the first page's items.
PgReturn ==
    /\ UNCHANGED notPage
    /\ pgPc = "rest"
    /\ pgPending = {}
    /\ pgResult' = pgFirst.items \o RestItems(Len(pgRequests) - 1)
    /\ pgPc' = "done"
    /\ UNCHANGED <<collection, remoteChange, serverCap, pgRequests, pgFirst, pgPending,
                   pgResp, pgArrival>>

\* No change of the remote collection.
NoChange == [op |-> "none", item |-> 0]

\* The id of an item saved during the call; the items of the collection are
\* numbered from 1.
NewItem == 0

\* While the follow-up requests are in flight another client of the account
\* changes the collection once: it saves an item, which the remote puts
\* first, or it removes the first or the last item. The remote serves every
\* later request from the changed collection.
PgRemoteChange ==
    /\ UNCHANGED notPage
    /\ pgPc = "rest"
    /\ remoteChange = NoChange
    /\ \/ /\ collection' = <<NewItem>> \o collection
          /\ remoteChange' = [op |-> "insert", item |-> NewItem]
       \/ /\ collection # <<>>
          /\ \E at \in {1, Len(collection)} :
                /\ collection' = SubSeq(collection, 1, at - 1) \o
                                 SubSeq(collection, at + 1, Len(collection))
                /\ remoteChange' = [op |-> "delete", item |-> collection[at]]
    /\ UNCHANGED <<serverCap, pgPc, pgRequests, pgFirst, pgPending, pgResp,
                   pgArrival, pgResult>>

NoPage == [items |-> <<>>, limit |-> 0, total |-> 0]

PageIdle ==
    /\ collection = <<>>
    /\ remoteChange = NoChange
    /\ serverCap = PageLimit
    /\ pgPc = "off"
    /\ pgRequests = <<>>
    /\ pgFirst = NoPage
    /\ pgPending = {}
    /\ pgResp = [i \in 1..(MaxTotal \div PageLimit + 1) |-> NoPage]
    /\ pgArrival = <<>>
    /\ pgResult = <<>>

PageInit ==
    /\ \E total \in 0..MaxTotal : collection = [i \in 1..total |-> i]
    /\ remoteChange = NoChange
    /\ serverCap \in ServerCaps
    /\ pgPc = "idle"
    /\ pgRequests = <<>>
    /\ pgFirst = NoPage
    /\ pgPending = {}
    /\ pgResp = [i \in 1..(MaxTotal \div PageLimit + 1) |-> NoPage]
    /\ pgArrival = <<>>
    /\ pgResult = <<>>

PageNext ==
    \/ PgCall
    \/ PgFirstResponse
    \/ \E i \in 1..(MaxTotal \div PageLimit + 1) : PgFollowResponse(i)
    \/ PgReturn

----------------------------------------------------------------------------
(* getAllTopItems                                                          *)

\* The limit of the first top-items request.
TopFirstLimit == 49

\* The limit of the second top-items request.
TopRestLimit == 50

\* The offset of the second top-items request.
TopRestOffset == 49

\* The offset from which the top-items endpoint serves nothing.
TopCeiling == 50

\* The remote's answer to a top-items request: it reports topReported as the
\* total whatever it holds, and serves nothing from offset 50 on.
TopPagingObject(limit, offset) ==
    [ok    |-> TRUE,
     items |-> IF offset >= TopCeiling THEN <<>>
               ELSE SubSeq(topItems, offset + 1,
                           Min(offset + limit, Len(topItems))),
     limit |-> limit,
     total |-> topReported]

\* A JSON error body: it has no items, limit or total field.
ErrorObject == [ok |-> FALSE, items |-> <<>>, limit |-> 0, total |-> 0]

\* The mutant of TopItemsResult: the two pages joined the wrong way round.
TopItemsResultSwapped(first49, rest) == rest.items \o first49.items

\* The returned array [...first49, ...rest].
TopItemsResult(first49, rest) == first49.items \o rest.items

\* getAllTopItems is called: the first request (limit 49, no offset, which
\* the remote reads as offset 0) is issued.
TpCall ==
    /\ UNCHANGED notTop
    /\ tpPc = "idle"
    /\ tpRequests' = <<[limit |-> TopFirstLimit, offset |-> 0]>>
    /\ tpPc' = "first"
    /\ UNCHANGED <<topItems, topReported, tpFaults, tpFirst, tpRest, tpResult>>

\* The first response arrives. A body that is not JSON rejects the call; any
\* JSON body is destructured (items of an error body is undefined) and the
\* second request is issued.
TpFirstResponse(kind) ==
    /\ UNCHANGED notTop
    /\ tpPc = "first"
    /\ kind \in Answers(tpFaults)
    /\ tpFaults' = tpFaults + Fault(kind)
    /\ IF kind = "nonJson"
       THEN /\ tpPc' = "threw"
            /\ UNCHANGED <<tpRequests, tpFirst>>
       ELSE /\ tpFirst' = IF kind = "ok"
                          THEN TopPagingObject(tpRequests[1].limit,
                                               tpRequests[1].offset)
                          ELSE ErrorObject
            /\ tpRequests' = Append(tpRequests,
                                [limit |-> TopRestLimit, offset |-> TopRestOffset])
            /\ tpPc' = "second"
    /\ UNCHANGED <<topItems, topReported, tpRest, tpResult>>

\* The second response arrives and the two item lists are spread into the
\* result; spreading the undefined items of an error body throws.
TpSecondResponse(kind) ==
    /\ UNCHANGED notTop
    /\ tpPc = "second"
    /\ kind \in Answers(tpFaults)
    /\ tpFaults' = tpFaults + Fault(kind)
    /\ IF kind = "nonJson"
       THEN /\ tpPc' = "threw"
            /\ UNCHANGED <<tpRest, tpResult>>
       ELSE LET rest == IF kind = "ok"
                        THEN TopPagingObject(tpRequests[2].limit,
                                             tpRequests[2].offset)
                        ELSE ErrorObject
            IN  /\ tpRest' = rest
                /\ IF tpFirst.ok /\ rest.ok
                   THEN /\ tpResult' = TopItemsResult(tpFirst, rest)
                        /\ tpPc' = "done"
                   ELSE /\ tpPc' = "threw"
                        /\ UNCHANGED tpResult
    /\ UNCHANGED <<topItems, topReported, tpRequests, tpFirst>>

TopIdle ==
    /\ topItems = <<>>
    /\ topReported = 0
    /\ tpFaults = 0
    /\ tpPc = "off"
    /\ tpRequests = <<>>
    /\ tpFirst = ErrorObject
    /\ tpRest = ErrorObject
    /\ tpResult = <<>>

TopInit ==
    /\ \E n \in 0..MaxTop : topItems = [i \in 1..n |-> i]
    /\ topReported \in TopReportedTotals
    /\ tpFaults = 0
    /\ tpPc = "idle"
    /\ tpRequests = <<>>
    /\ tpFirst = ErrorObject
    /\ tpRest = ErrorObject
    /\ tpResult = <<>>

TopNext ==
    \/ TpCall
    \/ \E kind \in {"ok", "errJson", "nonJson"} : TpFirstResponse(kind)
    \/ \E kind \in {"ok", "errJson", "nonJson"} : TpSecondResponse(kind)

----------------------------------------------------------------------------
(* chunk, deletePlaylistTracks, addPlaylistTracks                          *)

\* The mutant of ChunkSize: one more than the remote accepts.
ChunkSizeOver == 100 + 1

\* The chunk size both mutation functions pass to chunk().
ChunkSize == 100

\* The sleep after every chunk call, in milliseconds.
ChunkDelay == 100

\* The mutant of Slice: the end index taken as inclusive.
SliceInclusive(arr, from, to) == SubSeq(arr, from + 1, Min(to + 1, Len(arr)))

\* Array.prototype.slice(from, to) on a sequence (from and to count from 0).
Slice(arr, from, to) == SubSeq(arr, from + 1, Min(to, Len(arr)))

RECURSIVE ChunkFrom(_, _, _)
\* The chunks the generator yields from index i on: arr.slice(i, i + n) while
\* i < arr.length, i advancing by n.
ChunkFrom(arr, n, i) ==
    IF i < Len(arr)
    THEN <<Slice(arr, i, i + n)>> \o ChunkFrom(arr, n, i + n)
    ELSE <<>>

\* Everything chunk(arr, n) yields.
Chunk(arr, n) == ChunkFrom(arr, n, 0)

\* A caller-supplied track ref for URI u: the URI string or a track object.
TrackRef(form, u) == IF form = "string" THEN u ELSE [uri |-> u]

\* typeof track === "string" ? track : track.uri
UriOf(form, track) == IF form = "string" THEN track ELSE track.uri

\* The request one chunk is sent as: DELETE with a `tracks` list of {uri}
\* objects, POST with a `uris` list.
ChunkRequest(op, form, chunkTracks) ==
    IF op = "remove"
    THEN [method |-> "DELETE",
          body   |-> [tracks |-> [k \in 1..Len(chunkTracks) |->
                                    [uri |-> UriOf(form, chunkTracks[k])]]]]
    ELSE [method |-> "POST",
          body   |-> [uris |-> [k \in 1..Len(chunkTracks) |->
                                  UriOf(form, chunkTracks[k])]]]

\* The URIs a chunk request carries, in order.
RequestUris(req) ==
    IF req.method = "DELETE"
    THEN [k \in 1..Len(req.body.tracks) |-> req.body.tracks[k].uri]
    ELSE req.body.uris

\* The remote playlist's URI set after it has applied a chunk request.
Applied(remote, req) ==
    IF req.method = "DELETE"
    THEN remote \ Range(RequestUris(req))
    ELSE remote \union Range(RequestUris(req))

\* A snapshot response; snapshot_id 0 stands for undefined (an error body
\* has no snapshot_id field).
SnapshotResponse(ok, id) == [ok |-> ok, snapshot_id |-> id]

\* The mutant of NextResponse: the chunk's body is dropped.
NextResponseKept(response, body) == response

\* response = await fetch(...).then((res) => res.json()): the chunk's body
\* replaces what response held.
NextResponse(response, body) == body

\* The mutation function is called with the playlist's {id, snapshot_id} and
\* the tracks: response starts as {snapshot_id}, and empty input returns it.
MtCall ==
    /\ UNCHANGED notMut
    /\ mtPc = "idle"
    /\ mtResponse' = SnapshotResponse(TRUE, mtSnapshot)
    /\ mtI' = 0
    /\ mtPc' = IF Len(mtTracks) = 0 THEN "returned" ELSE "loop"
    /\ UNCHANGED <<mtOp, mtForm, mtTracks, mtRemote, mtSnapshot, mtFaults,
                   mtCalls, mtAnswers, mtEvents>>

\* The generator yields the next chunk and its HTTP call is issued.
MtSend ==
    /\ UNCHANGED notMut
    /\ mtPc = "loop"
    /\ mtI < Len(mtTracks)
    /\ LET req == ChunkRequest(mtOp, mtForm, Slice(mtTracks, mtI, mtI + ChunkSize))
       IN  /\ mtCalls' = Append(mtCalls, req)
           /\ mtEvents' = Append(mtEvents,
                            [e |-> "call", n |-> Len(RequestUris(req))])
    /\ mtI' = mtI + ChunkSize
    /\ mtPc' = "awaiting"
    /\ UNCHANGED <<mtOp, mtForm, mtTracks, mtRemote, mtSnapshot, mtFaults,
                   mtAnswers, mtResponse>>

\* The remote answers the chunk call. A success applies the chunk and yields a
\* new snapshot id; a failure applies nothing. Any JSON body, an error body
\* included, is assigned to response and the loop goes on; a body that is not
\* JSON rejects the call.
MtResponse(kind) ==
    /\ UNCHANGED notMut
    /\ mtPc = "awaiting"
    /\ kind \in Answers(mtFaults)
    /\ mtFaults' = mtFaults + Fault(kind)
    /\ mtAnswers' = Append(mtAnswers, kind)
    /\ IF kind = "ok"
       THEN /\ mtRemote' = Applied(mtRemote, mtCalls[Len(mtCalls)])
            /\ mtSnapshot' = mtSnapshot + 1
            /\ mtResponse' = NextResponse(mtResponse,
                                 SnapshotResponse(TRUE, mtSnapshot + 1))
            /\ mtPc' = "sleeping"
       ELSE /\ UNCHANGED <<mtRemote, mtSnapshot>>
            /\ IF kind = "errJson"
               THEN /\ mtResponse' = NextResponse(mtResponse,
                                         SnapshotResponse(FALSE, 0))
                    /\ mtPc' = "sleeping"
               ELSE /\ mtPc' = "threw"
                    /\ UNCHANGED mtResponse
    /\ UNCHANGED <<mtOp, mtForm, mtTracks, mtI, mtCalls, mtEvents>>

\* await sleep(100) after the chunk's response.
MtSleep ==
    /\ UNCHANGED notMut
    /\ mtPc = "sleeping"
    /\ mtEvents' = Append(mtEvents, [e |-> "sleep", n |-> ChunkDelay])
    /\ mtPc' = "loop"
    /\ UNCHANGED <<mtOp, mtForm, mtTracks, mtRemote, mtSnapshot, mtFaults,
                   mtI, mtCalls, mtAnswers, mtResponse>>

\* The generator is exhausted: response is returned.
MtReturn ==
    /\ UNCHANGED notMut
    /\ mtPc = "loop"
    /\ mtI >= Len(mtTracks)
    /\ mtPc' = "returned"
    /\ UNCHANGED <<mtOp, mtForm, mtTracks, mtRemote, mtSnapshot, mtFaults,
                   mtI, mtCalls, mtAnswers, mtEvents, mtResponse>>

MutIdle ==
    /\ mtOp = "add"
    /\ mtForm = "string"
    /\ mtTracks = <<>>
    /\ mtRemote = {}
    /\ mtSnapshot = 1
    /\ mtFaults = 0
    /\ mtPc = "off"
    /\ mtI = 0
    /\ mtCalls = <<>>
    /\ mtAnswers = <<>>
    /\ mtEvents = <<>>
    /\ mtResponse = SnapshotResponse(TRUE, 1)

\* An add starts from an empty remote playlist, a remove from one holding
\* the tracks to remove.
MutInit ==
    /\ mtOp \in {"add", "remove"}
    /\ mtForm \in {"string", "object"}
    /\ \E n \in 0..MaxRefs :
         /\ mtTracks = [u \in 1..n |-> TrackRef(mtForm, u)]
         /\ mtRemote = IF mtOp = "remove" THEN 1..n ELSE {}
    /\ mtSnapshot = 1
    /\ mtFaults = 0
    /\ mtPc = "idle"
    /\ mtI = 0
    /\ mtCalls = <<>>
    /\ mtAnswers = <<>>
    /\ mtEvents = <<>>
    /\ mtResponse = SnapshotResponse(TRUE, 1)

MutNext ==
    \/ MtCall
    \/ MtSend
    \/ \E kind \in {"ok", "errJson", "nonJson"} : MtResponse(kind)
    \/ MtSleep
    \/ MtReturn

----------------------------------------------------------------------------
(* getAllFollowing: cursor pagination                                      *)

\* The most pages the remote's cursor chain has.
MaxChain == 3

\* The sizes a page of the chain may have.
FollowPageSizes == {0, 1, 7, 50}

\* A cursors.after that is null (or absent, or the empty string): falsy.
NoCursor == 0

RECURSIVE SumSeq(_)
SumSeq(s) == IF s = <<>> THEN 0 ELSE s[1] + SumSeq(Tail(s))

\* The page requests a call is followed for: a call against an endless
\* chain issues requests without end.
MaxRequests == 5

\* The remote's page p of the followed artists: the artists are numbered in
\* the order of their names and served last name first; every page but the
\* last carries the cursor that leads to the next one. The last page of an
\* endless remote carries a cursor as well, one that leads to that page
\* again.
FollowingPage(p) ==
    LET before == SumSeq(SubSeq(followChain, 1, p - 1))
        all    == SumSeq(followChain)
    IN  [items |-> [j \in 1..followChain[p] |-> all - before - j + 1],
         after |-> IF p < Len(followChain) \/ followEndless THEN p
                   ELSE NoCursor]

\* The page a request addresses: the first one without a cursor, else the one
\* its cursor leads to.
FollowingResponse(req) ==
    FollowingPage(Min(req.after + 1, Len(followChain)))

\* The mutant of NextCursor: no response carries a cursor.
NextCursorNone(artists) == NoCursor

\* after = artists.cursors.after
NextCursor(artists) == artists.after

\* The query of a getFollowing call: limit "50", and the cursor if there is
\* one.
FollowingRequest(after) == [limit |-> PageLimit, after |-> after]

\* The mutant of CursorContinues: the loop never runs.
CursorContinuesNever(after) == FALSE

\* while (after)
CursorContinues(after) == after # NoCursor

\* items.sort(compareNamedEntity)
SortFollowing(items) == SortSeq(items, LAMBDA a, b : a < b)

\* getAllFollowing is called: the first page is requested without a cursor.
FwCall ==
    /\ UNCHANGED notFollow
    /\ fwPc = "idle"
    /\ fwRequests' = <<FollowingRequest(NoCursor)>>
    /\ fwPc' = "wait"
    /\ UNCHANGED <<followChain, followEndless, fwFaults, fwItems, fwAfter,
                   fwResult>>

\* A response arrives. A body that is not JSON rejects the call, and so does
\* a JSON error body, whose artists field is undefined. Otherwise the page's
\* items are pushed and its cursor is kept.
FwResponse(kind) ==
    /\ UNCHANGED notFollow
    /\ fwPc = "wait"
    /\ kind \in Answers(fwFaults)
    /\ fwFaults' = fwFaults + Fault(kind)
    /\ IF kind = "ok"
       THEN LET artists == FollowingResponse(fwRequests[Len(fwRequests)])
            IN  /\ fwItems' = fwItems \o artists.items
                /\ fwAfter' = NextCursor(artists)
                /\ fwPc' = "loop"
       ELSE /\ fwPc' = "threw"
            /\ UNCHANGED <<fwItems, fwAfter>>
    /\ UNCHANGED <<followChain, followEndless, fwRequests, fwResult>>

\* The loop test holds: the next page is requested with the cursor.
FwNext ==
    /\ UNCHANGED notFollow
    /\ fwPc = "loop"
    /\ CursorContinues(fwAfter)
    /\ Len(fwRequests) < MaxRequests
    /\ fwRequests' = Append(fwRequests, FollowingRequest(fwAfter))
    /\ fwPc' = "wait"
    /\ UNCHANGED <<followChain, followEndless, fwFaults, fwItems, fwAfter,
                   fwResult>>

\* The loop test fails: the items are sorted and returned.
FwReturn ==
    /\ UNCHANGED notFollow
    /\ fwPc = "loop"
    /\ ~CursorContinues(fwAfter)
    /\ fwResult' = SortFollowing(fwItems)
    /\ fwPc' = "done"
    /\ UNCHANGED <<followChain, followEndless, fwFaults, fwRequests, fwItems,
                   fwAfter>>

FollowIdle ==
    /\ followChain = <<0>>
    /\ followEndless = FALSE
    /\ fwFaults = 0
    /\ fwPc = "off"
    /\ fwRequests = <<>>
    /\ fwItems = <<>>
    /\ fwAfter = NoCursor
    /\ fwResult = <<>>

FollowInit ==
    /\ \E k \in 1..MaxChain : followChain \in [1..k -> FollowPageSizes]
    /\ followEndless = FALSE
    /\ fwFaults = 0
    /\ fwPc = "idle"
    /\ fwRequests = <<>>
    /\ fwItems = <<>>
    /\ fwAfter = NoCursor
    /\ fwResult = <<>>

\* The calls against any remote, one whose cursor chain never ends included.
FollowInitEndless ==
    /\ \E k \in 1..MaxChain : followChain \in [1..k -> FollowPageSizes]
    /\ followEndless \in BOOLEAN
    /\ fwFaults = 0
    /\ fwPc = "idle"
    /\ fwRequests = <<>>
    /\ fwItems = <<>>
    /\ fwAfter = NoCursor
    /\ fwResult = <<>>

FollowNext ==
    \/ FwCall
    \/ \E kind \in {"ok", "errJson", "nonJson"} : FwResponse(kind)
    \/ FwNext
    \/ FwReturn

----------------------------------------------------------------------------
(* main(): the environment and the remote account                          *)

\* An environment variable that is not set.
Unset == "<unset>"

CredentialNames ==
    <<"SPOTIFY_CLIENT_ID", "SPOTIFY_CLIENT_SECRET", "SPOTIFY_REFRESH_TOKEN">>

CredentialValues == {Unset, "", "secret"}

\* The values SPOTIFY_PUBLIC_PLAYLISTS_ONLY is given.
FlagValues == {Unset, "true", "false"}

\* The track URIs of the model, most recently saved first: a was added on
\* 2024-01-02 and b on 2024-01-01.
UriOrder == <<"a", "b">>

TrackUris == Range(UriOrder)

\* The track of a playlist item whose track is null (unavailable).
NullTrack == "<null>"

\* The elements of a set of tracks as a list, most recently saved first and a
\* null track last.
Ordered(S) == SelectSeq(UriOrder \o <<NullTrack>>, LAMBDA u : u \in S)

Reverse(s) == [i \in 1..Len(s) |-> s[Len(s) + 1 - i]]

\* The ids of the playlists the remote account may hold, and the id the
\* remote gives a playlist created during the run.
PlaylistIds == <<"p1", "p2">>

CreatedId == "p0"

\* What `${x.id}` yields for an object that has no id field.
UndefinedId == "undefined"

\* A playlist description that is null.
NoDescription == "<null>"

MirrorName == "Liked Songs (Mirror)"

\* The mutant of CreatedDescription: a description without the marker.
CreatedDescriptionUnmarked == "My favourites"

CreatedDescription ==
    "Shareable Liked Songs playlist synchronised by spotify-to-github."

\* The names and descriptions the account's playlists have: a mirror, a
\* playlist that shares only the mirror's name, and an ordinary playlist.
PlaylistShapes ==
    {[name |-> MirrorName, description |-> "Synced by spotify-to-github"],
     [name |-> MirrorName, description |-> "My favourites"],
     [name |-> "Chill mix", description |-> NoDescription]}

\* The tracks a playlist of the account may hold.
PlaylistTrackSets == SUBSET (TrackUris \union {NullTrack})

\* The saved shows of the account.
ShowIds == <<"s1", "s2">>

\* The time ranges main() asks top items for.
TimeRanges == <<"short_term", "medium_term", "long_term">>

\* String.prototype.toLowerCase on the strings of the model.
ToLowerCase(s) ==
    CASE s \in {"Liked Songs (Mirror)", "LIKED SONGS (MIRROR)"} ->
           "liked songs (mirror)"
      [] s = "Liked Songs (Mirror) 2" -> "liked songs (mirror) 2"
      [] s = "My Liked Songs (Mirror)" -> "my liked songs (mirror)"
      [] s = "Liked Songs" -> "liked songs"
      [] s \in {"Synced by spotify-to-github", "Synced by Spotify-To-GitHub"} ->
           "synced by spotify-to-github"
      [] s = "SPOTIFY-TO-GITHUB" -> "spotify-to-github"
      [] s = "Spotify to GitHub" -> "spotify to github"
      [] s = "My favourites" -> "my favourites"
      [] s = "Chill mix" -> "chill mix"
      [] s = CreatedDescription ->
           "shareable liked songs playlist synchronised by spotify-to-github."
      [] OTHER -> s

\* s.includes("spotify-to-github") on the lower-cased strings of the model.
IncludesMarker(s) ==
    s \in {"synced by spotify-to-github", "spotify-to-github",
           "shareable liked songs playlist synchronised by spotify-to-github."}

\* The mutant of IsMirror: the description is not looked at.
IsMirrorByNameOnly(playlist) ==
    ToLowerCase(playlist.name) = "liked songs (mirror)"

\* playlist.name.toLowerCase() == "liked songs (mirror)" &&
\* playlist.description?.toLowerCase().includes("spotify-to-github")
IsMirror(playlist) ==
    /\ ToLowerCase(playlist.name) = "liked songs (mirror)"
    /\ playlist.description # NoDescription
    /\ IncludesMarker(ToLowerCase(playlist.description))

\* The mutant of Difference: nothing is ever left over.
DifferenceNone(setA, setB) == {}

\* The mutant of Difference: the elements the two sets share.
DifferenceKeepsShared(setA, setB) == setA \intersect setB

\* difference(setA, setB): a copy of setA with every element of setB deleted.
Difference(setA, setB) == setA \ setB

\* The position of x in the sequence s (0 when it is not there).
IndexOf(s, x) ==
    IF \E i \in 1..Len(s) : s[i] = x
    THEN CHOOSE i \in 1..Len(s) : s[i] = x
    ELSE 0

\* compareString on playlist names: the rank of a name in the
\* case-insensitive order of the model's names.
NameRank(name) == IF ToLowerCase(name) = "chill mix" THEN 1 ELSE 2

\* comparePlaylist(a, b) < 0 for playlists of one owner: by name, then id.
PlaylistBefore(a, b) ==
    \/ NameRank(a.name) < NameRank(b.name)
    \/ /\ NameRank(a.name) = NameRank(b.name)
       /\ IndexOf(PlaylistIds, a.id) < IndexOf(PlaylistIds, b.id)

RECURSIVE SortPlaylists(_)
\* Array.prototype.sort(comparePlaylist).
SortPlaylists(s) ==
    IF s = <<>> THEN <<>>
    ELSE LET first == CHOOSE i \in 1..Len(s) :
                        \A j \in 1..Len(s) : j = i \/ PlaylistBefore(s[i], s[j])
             rest  == [k \in 1..(Len(s) - 1) |-> IF k < first THEN s[k] ELSE s[k + 1]]
         IN  <<s[first]>> \o SortPlaylists(rest)

\* What getAllSaved returns for a remote collection when every page request
\* succeeds: the first page's items, then the follow-up pages' items.
GetAllSaved(coll) ==
    LET first == PagingObject(coll, PageLimit, 0)
        more  == FollowUpRequests(first)
    IN  first.items \o
        Flatten([i \in 1..Len(more) |->
                   PagingObject(coll, more[i].limit, more[i].offset).items])

\* A request as the remote sees it.
\* The mutant of Authorization: the Basic credentials on every request.
AuthorizationBasic(endpoint, token) == <<"Basic", "credentials">>

\* The Authorization header: `Basic ${auth}` on the token exchange, the
\* client's init header `Bearer ${accessToken}` on every other request.
Authorization(endpoint, token) ==
    IF endpoint = "TOKEN" THEN <<"Basic", "credentials">>
    ELSE <<"Bearer", token>>

Request(method, endpoint, id, limit, offset, range, uris) ==
    [method |-> method, endpoint |-> endpoint, id |-> id, limit |-> limit,
     offset |-> offset, time_range |-> range, uris |-> uris,
     auth |-> Authorization(endpoint, accessToken)]

\* The page requests getAllSaved issues for an endpoint: limit 50 with no
\* offset, then the follow-ups the first page's total calls for.
PageRequests(endpoint, id, coll) ==
    LET first == PagingObject(coll, PageLimit, 0)
        more  == FollowUpRequests(first)
    IN  {Request("GET", endpoint, id, PageLimit, 0, "", <<>>)} \union
        {Request("GET", endpoint, id, more[i].limit, more[i].offset, "", <<>>) :
            i \in 1..Len(more)}

\* One writeJSON(name, data) call: the document's name (with the id or time
\* range that completes it), whether data was built from successful responses
\* only, data.total and the items data lists.
Doc(name, key, ok, total, items) ==
    [name |-> name, key |-> key, ok |-> ok, total |-> total, items |-> items]

\* The token createClient holds when the token response had no access_token.
UndefinedToken == "undefined"

\* How the remote answers a resource or mutation request of the run: a
\* request carrying no valid token is refused with a JSON error body.
RunAnswers ==
    IF accessToken = UndefinedToken THEN {"errJson"} ELSE Answers(runFaults)

\* The failure a response of this kind counts as.
RunFault(kind) == IF accessToken = UndefinedToken THEN 0 ELSE Fault(kind)

NoError == [type |-> "none", missing |-> <<>>]

\* savedTracksPlaylist and savedTracksPlaylistFull before they are assigned.
UndefinedPlaylist ==
    [defined |-> FALSE, ok |-> FALSE, id |-> UndefinedId, snapshot_id |-> 0,
     tracks |-> <<>>]

\* The saved albums, saved episodes and followed artists of the account, and
\* the episodes of its saved show: the run only passes them through.
SavedAlbums == <<"album1">>

SavedEpisodes == <<"episode1">>

Followed == <<"artist1">>

ShowEpisodes == <<"episode2">>

\* The remote playlist object of the account with this id.
RemotePlaylist(id) ==
    remotePlaylists[CHOOSE i \in 1..Len(remotePlaylists) :
                      remotePlaylists[i].id = id]

\* The simplified playlist object the playlists list carries.
Simplified(p) ==
    [id |-> p.id, name |-> p.name, description |-> p.description,
     public |-> p.public, snapshot_id |-> p.snapshot_id]

\* A playlist object as savedTracksPlaylist holds it: what the mutation
\* functions destructure is its id and its snapshot_id.
Handle(ok, id, snapshot) ==
    [defined |-> TRUE, ok |-> ok, id |-> id, snapshot_id |-> snapshot,
     tracks |-> <<>>]

\* What getPlaylist (or getShow) returns: the parent response's fields, the
\* children replaced by the fully paginated list. A JSON error body as parent
\* response gives an object that has no id.
Detail(parentOk, id, snapshot, children) ==
    [defined |-> TRUE, ok |-> parentOk,
     id |-> IF parentOk THEN id ELSE UndefinedId,
     snapshot_id |-> IF parentOk THEN snapshot ELSE 0,
     tracks |-> children]

\* The error main() rejects with.
Thrown(type) == [type |-> type, missing |-> <<>>]

\* const missing: the names of the falsy credentials, in the order pushed.
Missing(e) == SelectSeq(CredentialNames, LAMBDA n : e[n] = Unset \/ e[n] = "")

\* The mutant of ConfigError: only the first missing credential is named.
ConfigErrorFirstOnly(e) == [type |-> "Error", missing |-> <<Missing(e)[1]>>]

\* new Error(`Missing required inputs: ${missing.join(", ")}`)
ConfigError(e) == [type |-> "Error", missing |-> Missing(e)]

\* Lines 173-179: the credentials are checked before anything else.
RunCheckConfig ==
    /\ pc = "start"
    /\ IF Len(Missing(env)) > 0
       THEN /\ pc' = "threw"
            /\ thrown' = ConfigError(env)
       ELSE /\ pc' = "token"
            /\ UNCHANGED thrown
    /\ UNCHANGED <<env, library, remotePlaylists, runFaults, requests,
                   inflight, mutations, writes, sleeps, accessToken, tracks,
                   playlists, idx, savedTracksPlaylist,
                   savedTracksPlaylistFull, playlistTrackUris,
                   savedTrackUris, topPc, topOk, mutationTracks, chunkI>>
    /\ UNCHANGED notRun

\* createClient: one token exchange. A body that is not JSON rejects; any
\* JSON body is destructured, and one without access_token (an error body, or
\* a success body lacking the field) leaves the token undefined.
RunCreateClient(kind) ==
    /\ pc = "token"
    /\ kind \in Answers(runFaults) \union
                (IF runFaults < MaxFaults THEN {"noField"} ELSE {})
    /\ runFaults' = runFaults + Fault(kind)
    /\ requests' = requests (+)
                   SetToBag({Request("POST", "TOKEN", "", 0, 0, "", <<>>)})
    /\ IF kind = "nonJson"
       THEN /\ pc' = "threw"
            /\ thrown' = Thrown("SyntaxError")
            /\ UNCHANGED accessToken
       ELSE /\ accessToken' = IF kind = "ok" THEN "token" ELSE UndefinedToken
            /\ pc' = "profile"
            /\ UNCHANGED thrown
    /\ UNCHANGED <<env, library, remotePlaylists, inflight, mutations,
                   writes, sleeps, tracks, playlists, idx,
                   savedTracksPlaylist, savedTracksPlaylistFull,
                   playlistTrackUris, savedTrackUris, topPc, topOk,
                   mutationTracks, chunkI>>
    /\ UNCHANGED notRun

\* getProfile and writeJSON("me", me): an error body is written like a
\* profile.
RunGetProfile(kind) ==
    /\ pc = "profile"
    /\ kind \in RunAnswers
    /\ runFaults' = runFaults + RunFault(kind)
    /\ requests' = requests (+)
                   SetToBag({Request("GET", "PROFILE", "", 0, 0, "", <<>>)})
    /\ IF kind = "nonJson"
       THEN /\ pc' = "threw"
            /\ thrown' = Thrown("SyntaxError")
            /\ UNCHANGED writes
       ELSE /\ writes' = Append(writes, Doc("me", "", kind = "ok", 0, <<>>))
            /\ pc' = "tracks"
            /\ UNCHANGED thrown
    /\ UNCHANGED <<env, library, remotePlaylists, inflight, mutations,
                   sleeps, accessToken, tracks, playlists, idx,
                   savedTracksPlaylist, savedTracksPlaylistFull,
                   playlistTrackUris, savedTrackUris, topPc, topOk,
                   mutationTracks, chunkI>>
    /\ UNCHANGED notRun

\* The requests one getAllSaved call issues: all of them when the first page
\* succeeds, the first alone when it fails (an error body has no total).
SavedRequests(kind, endpoint, id, coll) ==
    IF kind = "ok"
    THEN PageRequests(endpoint, id, coll)
    ELSE {Request("GET", endpoint, id, PageLimit, 0, "", <<>>)}

\* How a getAllSaved call whose first page fails rejects: response.json()
\* rejects on a body that is not JSON, and spreading the undefined items of
\* an error body throws.
SavedError(kind) ==
    IF kind = "nonJson" THEN Thrown("SyntaxError") ELSE Thrown("TypeError")

\* getAllSavedTracks, sleep(1000), and the two track documents.
RunSavedTracks(kind) ==
    /\ pc = "tracks"
    /\ kind \in RunAnswers
    /\ runFaults' = runFaults + RunFault(kind)
    /\ LET coll == Reverse(Ordered(library))
       IN  /\ requests' = requests (+)
                          SetToBag(SavedRequests(kind, "TRACKS", "", coll))
           /\ IF kind = "ok"
              THEN LET sorted == Ordered(Range(GetAllSaved(coll)))
                   IN  /\ tracks' = sorted
                       /\ sleeps' = Append(sleeps, 1000)
                       /\ writes' = writes \o
                            <<Doc("tracks", "", TRUE, Len(sorted), sorted),
                              Doc("tracks_simplified", "", TRUE, Len(sorted), sorted)>>
                       /\ pc' = "albums"
                       /\ UNCHANGED thrown
              ELSE /\ pc' = "threw"
                   /\ thrown' = SavedError(kind)
                   /\ UNCHANGED <<tracks, sleeps, writes>>
    /\ UNCHANGED <<env, library, remotePlaylists, inflight, mutations,
                   accessToken, playlists, idx, savedTracksPlaylist,
                   savedTracksPlaylistFull, playlistTrackUris,
                   savedTrackUris, topPc, topOk, mutationTracks, chunkI>>
    /\ UNCHANGED notRun

\* getAllSavedAlbums, sleep(1000), the two album documents, sleep(1000).
RunSavedAlbums(kind) ==
    /\ pc = "albums"
    /\ kind \in RunAnswers
    /\ runFaults' = runFaults + RunFault(kind)
    /\ requests' = requests (+)
                   SetToBag(SavedRequests(kind, "ALBUMS", "", SavedAlbums))
    /\ IF kind = "ok"
       THEN LET albums == GetAllSaved(SavedAlbums)
            IN  /\ sleeps' = sleeps \o <<1000, 1000>>
                /\ writes' = writes \o
                     <<Doc("albums", "", TRUE, Len(albums), albums),
                       Doc("albums_simplified", "", TRUE, Len(albums), albums)>>
                /\ pc' = "episodes"
                /\ UNCHANGED thrown
       ELSE /\ pc' = "threw"
            /\ thrown' = SavedError(kind)
            /\ UNCHANGED <<sleeps, writes>>
    /\ UNCHANGED <<env, library, remotePlaylists, inflight, mutations,
                   accessToken, tracks, playlists, idx, savedTracksPlaylist,
                   savedTracksPlaylistFull, playlistTrackUris,
                   savedTrackUris, topPc, topOk, mutationTracks, chunkI>>
    /\ UNCHANGED notRun

\* getAllSavedEpisodes, the episodes document, sleep(1000).
RunSavedEpisodes(kind) ==
    /\ pc = "episodes"
    /\ kind \in RunAnswers
    /\ runFaults' = runFaults + RunFault(kind)
    /\ requests' = requests (+)
                   SetToBag(SavedRequests(kind, "EPISODES", "", SavedEpisodes))
    /\ IF kind = "ok"
       THEN LET episodes == GetAllSaved(SavedEpisodes)
            IN  /\ sleeps' = Append(sleeps, 1000)
                /\ writes' = Append(writes,
                     Doc("episodes", "", TRUE, Len(episodes), episodes))
                /\ pc' = "top"
                /\ idx' = 1
                /\ UNCHANGED thrown
       ELSE /\ pc' = "threw"
            /\ thrown' = SavedError(kind)
            /\ UNCHANGED <<sleeps, writes, idx>>
    /\ UNCHANGED <<env, library, remotePlaylists, inflight, mutations,
                   accessToken, tracks, playlists, savedTracksPlaylist,
                   savedTracksPlaylistFull, playlistTrackUris,
                   savedTrackUris, topPc, topOk, mutationTracks, chunkI>>
    /\ UNCHANGED notRun

\* The two functions one time range's Promise.all runs.
TopFunctions == {"artists", "tracks"}

TopEndpoint(fn) == IF fn = "artists" THEN "TOP_ARTISTS" ELSE "TOP_TRACKS"

\* Request n (1 or 2) of getAllTopItems for a time range.
TopRequest(fn, n, range) ==
    IF n = 1
    THEN Request("GET", TopEndpoint(fn), "", TopFirstLimit, 0, range, <<>>)
    ELSE Request("GET", TopEndpoint(fn), "", TopRestLimit, TopRestOffset,
                 range, <<>>)

\* getAllTopArtists and getAllTopTracks are both called for the time range
\* before Promise.all is awaited: each issues its first request.
RunTopStart ==
    /\ pc = "top"
    /\ LET first == {TopRequest(fn, 1, TimeRanges[idx]) : fn \in TopFunctions}
       IN  /\ requests' = requests (+) SetToBag(first)
           /\ inflight' = first
    /\ topPc' = [fn \in TopFunctions |-> "first"]
    /\ topOk' = [fn \in TopFunctions |-> FALSE]
    /\ pc' = "topWait"
    /\ UNCHANGED <<env, library, remotePlaylists, runFaults, mutations,
                   writes, sleeps, accessToken, tracks, playlists, idx,
                   savedTracksPlaylist, savedTracksPlaylistFull,
                   playlistTrackUris, savedTrackUris, mutationTracks, chunkI,
                   thrown>>
    /\ UNCHANGED notRun

\* A response to one of the two functions arrives. After its first response
\* the function issues its second request; after its second it spreads both
\* item lists, which throws if either response was an error body.
RunTopResponse(fn, kind) ==
    /\ pc = "topWait"
    /\ topPc[fn] \in {"first", "second"}
    /\ kind \in RunAnswers
    /\ runFaults' = runFaults + RunFault(kind)
    /\ LET req    == CHOOSE r \in inflight : r.endpoint = TopEndpoint(fn)
           second == TopRequest(fn, 2, TimeRanges[idx])
       IN  IF kind = "nonJson"
           THEN /\ pc' = "threw"
                /\ thrown' = Thrown("SyntaxError")
                /\ inflight' = inflight \ {req}
                /\ UNCHANGED <<requests, topPc, topOk>>
           ELSE IF topPc[fn] = "first"
           THEN /\ topOk' = [topOk EXCEPT ![fn] = (kind = "ok")]
                /\ topPc' = [topPc EXCEPT ![fn] = "second"]
                /\ requests' = requests (+) SetToBag({second})
                /\ inflight' = (inflight \ {req}) \union {second}
                /\ UNCHANGED <<pc, thrown>>
           ELSE IF topOk[fn] /\ kind = "ok"
           THEN /\ topPc' = [topPc EXCEPT ![fn] = "done"]
                /\ inflight' = inflight \ {req}
                /\ UNCHANGED <<pc, thrown, requests, topOk>>
           ELSE /\ pc' = "threw"
                /\ thrown' = Thrown("TypeError")
                /\ inflight' = inflight \ {req}
                /\ UNCHANGED <<requests, topPc, topOk>>
    /\ UNCHANGED <<env, library, remotePlaylists, mutations, writes, sleeps,
                   accessToken, tracks, playlists, idx, savedTracksPlaylist,
                   savedTracksPlaylistFull, playlistTrackUris,
                   savedTrackUris, mutationTracks, chunkI>>
    /\ UNCHANGED notRun

\* Promise.all resolves: the two top documents of the time range are written,
\* sleep(1000), and the loop goes to the next time range.
RunTopJoin ==
    /\ pc = "topWait"
    /\ \A fn \in TopFunctions : topPc[fn] = "done"
    /\ writes' = writes \o
         <<Doc("top/artists/", TimeRanges[idx], TRUE, 0, <<>>),
           Doc("top/tracks/", TimeRanges[idx], TRUE, 0, <<>>)>>
    /\ sleeps' = Append(sleeps, 1000)
    /\ IF idx < Len(TimeRanges)
       THEN /\ idx' = idx + 1
            /\ pc' = "top"
       ELSE /\ idx' = 1
            /\ pc' = "following"
    /\ UNCHANGED <<env, library, remotePlaylists, runFaults, requests,
                   inflight, mutations, accessToken, tracks, playlists,
                   savedTracksPlaylist, savedTracksPlaylistFull,
                   playlistTrackUris, savedTrackUris, topPc, topOk,
                   mutationTracks, chunkI, thrown>>
    /\ UNCHANGED notRun

\* getAllFollowing (the account follows fewer artists than one page holds, so
\* the first page carries no cursor), the following document, sleep(1000).
\* The artists field of an error body is undefined and reading its items
\* throws.
RunFollowing(kind) ==
    /\ pc = "following"
    /\ kind \in RunAnswers
    /\ runFaults' = runFaults + RunFault(kind)
    /\ requests' = requests (+)
         SetToBag({Request("GET", "FOLLOWING", "", PageLimit, 0, "", <<>>)})
    /\ IF kind = "ok"
       THEN /\ writes' = Append(writes,
                 Doc("following", "", TRUE, Len(Followed), Followed))
            /\ sleeps' = Append(sleeps, 1000)
            /\ pc' = "playlists"
            /\ UNCHANGED thrown
       ELSE /\ pc' = "threw"
            /\ thrown' = SavedError(kind)
            /\ UNCHANGED <<writes, sleeps>>
    /\ UNCHANGED <<env, library, remotePlaylists, inflight, mutations,
                   accessToken, tracks, playlists, idx, savedTracksPlaylist,
                   savedTracksPlaylistFull, playlistTrackUris,
                   savedTrackUris, topPc, topOk, mutationTracks, chunkI>>
    /\ UNCHANGED notRun

\* The playlists list with the filter never applied.
KeptPlaylistsAll(flag, all) == all

\* if (process.env.SPOTIFY_PUBLIC_PLAYLISTS_ONLY === "true") playlists =
\* playlists.filter((playlist) => playlist.public): the list is filtered only
\* when the variable is exactly the string "true".
KeptPlaylists(flag, all) ==
    IF flag = "true" THEN SelectSeq(all, LAMBDA p : p.public) ELSE all

\* getAllSavedPlaylists, the public-only filter, the playlists document,
\* sleep(1000), and the declarations before the playlist loop.
RunSavedPlaylists(kind) ==
    /\ pc = "playlists"
    /\ kind \in RunAnswers
    /\ runFaults' = runFaults + RunFault(kind)
    /\ LET coll == Reverse([i \in 1..Len(remotePlaylists) |->
                              Simplified(remotePlaylists[i])])
       IN  /\ requests' = requests (+)
                          SetToBag(SavedRequests(kind, "PLAYLISTS", "", coll))
           /\ IF kind = "ok"
              THEN LET all  == SortPlaylists(GetAllSaved(coll))
                       kept == KeptPlaylists(
                                 env["SPOTIFY_PUBLIC_PLAYLISTS_ONLY"], all)
                   IN  /\ playlists' = kept
                       /\ writes' = Append(writes,
                            Doc("playlists", "", TRUE, Len(kept),
                                [i \in 1..Len(kept) |-> kept[i].id]))
                       /\ sleeps' = Append(sleeps, 1000)
                       /\ savedTrackUris' = Range(tracks)
                       /\ idx' = 1
                       /\ pc' = "plLoop"
                       /\ UNCHANGED thrown
              ELSE /\ pc' = "threw"
                   /\ thrown' = SavedError(kind)
                   /\ UNCHANGED <<playlists, writes, sleeps, savedTrackUris, idx>>
    /\ UNCHANGED <<env, library, remotePlaylists, inflight, mutations,
                   accessToken, tracks, savedTracksPlaylist,
                   savedTracksPlaylistFull, playlistTrackUris, topPc, topOk,
                   mutationTracks, chunkI>>
    /\ UNCHANGED notRun

\* One turn of the playlist loop up to its sleep: getPlaylist issues the
\* parent request and the child pagination together, awaits the children,
\* then the parent; the playlist is then taken as the mirror or written out.
\* The mutant of AvailableTracks: every item is kept.
AvailableTracksAll(items) == items

\* .filter(({ track }) => !!track): the items whose track is not null.
AvailableTracks(items) == SelectSeq(items, LAMBDA t : t # NullTrack)

RunGetPlaylist(kParent, kChild) ==
    /\ pc = "plLoop"
    /\ idx <= Len(playlists)
    /\ kParent \in RunAnswers
    /\ kChild \in RunAnswers
    /\ runFaults + RunFault(kParent) + RunFault(kChild) <= MaxFaults
    /\ runFaults' = runFaults + RunFault(kParent) + RunFault(kChild)
    /\ LET playlist == playlists[idx]
           remote   == RemotePlaylist(playlist.id)
           coll     == Ordered(remote.tracks)
           full     == Detail(kParent = "ok", remote.id, remote.snapshot_id,
                              GetAllSaved(coll))
       IN  /\ requests' = requests (+)
                SetToBag({Request("GET", "PLAYLIST", playlist.id, 0, 0, "", <<>>)}
                   \union SavedRequests(kChild, "PLAYLIST_TRACKS", playlist.id, coll))
           /\ IF kChild # "ok" \/ kParent = "nonJson"
              THEN /\ pc' = "threw"
                   /\ thrown' = IF kChild # "ok" THEN SavedError(kChild)
                                ELSE Thrown("SyntaxError")
                   /\ UNCHANGED <<savedTracksPlaylist, savedTracksPlaylistFull,
                                  playlistTrackUris, writes>>
              ELSE /\ pc' = "plSleep"
                   /\ UNCHANGED thrown
                   /\ IF IsMirror(playlist)
                      THEN /\ savedTracksPlaylist' =
                                Handle(TRUE, playlist.id, playlist.snapshot_id)
                           /\ savedTracksPlaylistFull' = full
                           /\ playlistTrackUris' =
                                Range(AvailableTracks(full.tracks))
                           /\ UNCHANGED writes
                      ELSE /\ writes' = Append(writes,
                                Doc("playlists/", playlist.id, full.ok,
                                    Len(full.tracks), full.tracks))
                           /\ UNCHANGED <<savedTracksPlaylist,
                                          savedTracksPlaylistFull,
                                          playlistTrackUris>>
    /\ UNCHANGED <<env, library, remotePlaylists, inflight, mutations,
                   sleeps, accessToken, tracks, playlists, idx,
                   savedTrackUris, topPc, topOk, mutationTracks, chunkI>>
    /\ UNCHANGED notRun

\* The sleep at the end of every turn of the playlist loop and of the show
\* loop, in milliseconds.
LoopDelay == 500

\* The mutant of AfterLoopSleep: the loop does not pause.
AfterLoopSleepSkipped(slept) == slept

\* await sleep(500) at the end of a turn of the playlist or show loop.
AfterLoopSleep(slept) == Append(slept, LoopDelay)

\* sleep(500) at the end of a turn of the playlist loop.
RunPlaylistSleep ==
    /\ pc = "plSleep"
    /\ sleeps' = AfterLoopSleep(sleeps)
    /\ idx' = idx + 1
    /\ pc' = "plLoop"
    /\ UNCHANGED <<env, library, remotePlaylists, runFaults, requests,
                   inflight, mutations, writes, accessToken, tracks,
                   playlists, savedTracksPlaylist, savedTracksPlaylistFull,
                   playlistTrackUris, savedTrackUris, topPc, topOk,
                   mutationTracks, chunkI, thrown>>
    /\ UNCHANGED notRun

\* The mutant of LoopOver: the loop is left after its first turn.
LoopOverAfterFirst(i, list) == i > Min(1, Len(list))

\* for (const playlist of playlists): the iterator is exhausted.
LoopOver(i, list) == i > Len(list)

\* The mutant of NotFound: a mirror is created whatever the loop found.
NotFoundAlways(playlist) == TRUE

\* if (!savedTracksPlaylist): the loop assigned no playlist.
NotFound(playlist) == ~playlist.defined

\* The playlist loop is over: if (!savedTracksPlaylist) ... else ...
RunLoopExit ==
    /\ pc = "plLoop"
    /\ LoopOver(idx, playlists)
    /\ pc' = IF NotFound(savedTracksPlaylist) THEN "create" ELSE "delete"
    /\ UNCHANGED <<env, library, remotePlaylists, runFaults, requests,
                   inflight, mutations, writes, sleeps, accessToken, tracks,
                   playlists, idx, savedTracksPlaylist,
                   savedTracksPlaylistFull, playlistTrackUris,
                   savedTrackUris, topPc, topOk, mutationTracks, chunkI, thrown>>
    /\ UNCHANGED notRun

\* createPlaylist: the response body, an error body included, becomes
\* savedTracksPlaylist.
RunCreatePlaylist(kind) ==
    /\ pc = "create"
    /\ kind \in RunAnswers
    /\ runFaults' = runFaults + RunFault(kind)
    /\ requests' = requests (+)
         SetToBag({Request("POST", "PLAYLISTS", "", 0, 0, "", <<>>)})
    /\ mutations' = Append(mutations,
                           [op |-> "create", id |-> "", uris |-> <<>>])
    /\ IF kind = "ok"
       THEN /\ remotePlaylists' = Append(remotePlaylists,
                 [id |-> CreatedId, name |-> MirrorName,
                  description |-> CreatedDescription, public |-> TRUE,
                  snapshot_id |-> 1, tracks |-> {}])
            /\ savedTracksPlaylist' = Handle(TRUE, CreatedId, 1)
            /\ pc' = "add"
            /\ UNCHANGED thrown
       ELSE /\ UNCHANGED remotePlaylists
            /\ IF kind = "errJson"
               THEN /\ savedTracksPlaylist' = Handle(FALSE, UndefinedId, 0)
                    /\ pc' = "add"
                    /\ UNCHANGED thrown
               ELSE /\ pc' = "threw"
                    /\ thrown' = Thrown("SyntaxError")
                    /\ UNCHANGED savedTracksPlaylist
    /\ UNCHANGED <<env, library, inflight, writes, sleeps, accessToken,
                   tracks, playlists, idx, savedTracksPlaylistFull,
                   playlistTrackUris, savedTrackUris, topPc, topOk,
                   mutationTracks, chunkI>>
    /\ UNCHANGED notRun

\* Lines 357-367: the tracks in the mirror that are no longer saved are
\* removed, if there are any.
RunDelete ==
    /\ pc = "delete"
    /\ LET deletedTrackUris == Difference(playlistTrackUris, savedTrackUris)
       IN  IF Cardinality(deletedTrackUris) > 0
           THEN /\ mutationTracks' = Ordered(deletedTrackUris)
                /\ chunkI' = 0
                /\ pc' = "deleteChunks"
           ELSE /\ pc' = "add"
                /\ UNCHANGED <<mutationTracks, chunkI>>
    /\ UNCHANGED <<env, library, remotePlaylists, runFaults, requests,
                   inflight, mutations, writes, sleeps, accessToken, tracks,
                   playlists, idx, savedTracksPlaylist,
                   savedTracksPlaylistFull, playlistTrackUris,
                   savedTrackUris, topPc, topOk, thrown>>
    /\ UNCHANGED notRun

\* Lines 370-376: the saved tracks the mirror lacks are added, if there are
\* any.
RunAdd ==
    /\ pc = "add"
    /\ LET addedTrackUris == Difference(savedTrackUris, playlistTrackUris)
       IN  IF Cardinality(addedTrackUris) > 0
           THEN /\ mutationTracks' = Ordered(addedTrackUris)
                /\ chunkI' = 0
                /\ pc' = "addChunks"
           ELSE /\ pc' = "writeMirror"
                /\ UNCHANGED <<mutationTracks, chunkI>>
    /\ UNCHANGED <<env, library, remotePlaylists, runFaults, requests,
                   inflight, mutations, writes, sleeps, accessToken, tracks,
                   playlists, idx, savedTracksPlaylist,
                   savedTracksPlaylistFull, playlistTrackUris,
                   savedTrackUris, topPc, topOk, thrown>>
    /\ UNCHANGED notRun

\* The remote playlists after the playlist with this id has applied a chunk
\* request.
PlaylistsApplied(id, req) ==
    [i \in 1..Len(remotePlaylists) |->
        IF remotePlaylists[i].id = id
        THEN [remotePlaylists[i] EXCEPT
                !.tracks = Applied(remotePlaylists[i].tracks, req),
                !.snapshot_id = remotePlaylists[i].snapshot_id + 1]
        ELSE remotePlaylists[i]]

\* The mutant of AfterChunkSleep: the chunk loop does not pause.
AfterChunkSleepSkipped(slept) == slept

\* await sleep(100) at the end of a turn of the chunk loop.
AfterChunkSleep(slept) == Append(slept, ChunkDelay)

\* One turn of the chunk loop of deletePlaylistTracks or addPlaylistTracks
\* in the run: the chunk's call, its response and sleep(100). A playlist
\* object without an id addresses no playlist, which the remote refuses.
MutationChunk(op, kind) ==
    /\ chunkI < Len(mutationTracks)
    /\ kind \in (IF savedTracksPlaylist.id = UndefinedId
                 THEN {"errJson"} ELSE RunAnswers)
    /\ runFaults' = runFaults +
         (IF savedTracksPlaylist.id = UndefinedId THEN 0 ELSE RunFault(kind))
    /\ LET req == ChunkRequest(op, "string",
                               Slice(mutationTracks, chunkI, chunkI + ChunkSize))
           id  == savedTracksPlaylist.id
       IN  /\ requests' = requests (+)
                SetToBag({Request(req.method, "PLAYLIST_TRACKS", id, 0, 0, "",
                                  RequestUris(req))})
           /\ mutations' = Append(mutations,
                [op |-> op, id |-> id, uris |-> RequestUris(req)])
           /\ remotePlaylists' = IF kind = "ok" THEN PlaylistsApplied(id, req)
                                 ELSE remotePlaylists
    /\ chunkI' = chunkI + ChunkSize
    /\ IF kind = "nonJson"
       THEN /\ pc' = "threw"
            /\ thrown' = Thrown("SyntaxError")
            /\ UNCHANGED sleeps
       ELSE /\ sleeps' = AfterChunkSleep(sleeps)
            /\ UNCHANGED <<pc, thrown>>
    /\ UNCHANGED <<env, library, inflight, writes, accessToken, tracks,
                   playlists, idx, savedTracksPlaylist,
                   savedTracksPlaylistFull, playlistTrackUris,
                   savedTrackUris, topPc, topOk, mutationTracks>>
    /\ UNCHANGED notRun

RunDeleteChunk(kind) == pc = "deleteChunks" /\ MutationChunk("remove", kind)

RunAddChunk(kind) == pc = "addChunks" /\ MutationChunk("add", kind)

\* deletePlaylistTracks has sent every chunk and returns.
RunDeleteDone ==
    /\ pc = "deleteChunks"
    /\ chunkI >= Len(mutationTracks)
    /\ pc' = "add"
    /\ UNCHANGED <<env, library, remotePlaylists, runFaults, requests,
                   inflight, mutations, writes, sleeps, accessToken, tracks,
                   playlists, idx, savedTracksPlaylist,
                   savedTracksPlaylistFull, playlistTrackUris,
                   savedTrackUris, topPc, topOk, mutationTracks, chunkI, thrown>>
    /\ UNCHANGED notRun

\* addPlaylistTracks has sent every chunk and returns.
RunAddDone ==
    /\ pc = "addChunks"
    /\ chunkI >= Len(mutationTracks)
    /\ pc' = "writeMirror"
    /\ UNCHANGED <<env, library, remotePlaylists, runFaults, requests,
                   inflight, mutations, writes, sleeps, accessToken, tracks,
                   playlists, idx, savedTracksPlaylist,
                   savedTracksPlaylistFull, playlistTrackUris,
                   savedTrackUris, topPc, topOk, mutationTracks, chunkI, thrown>>
    /\ UNCHANGED notRun

\* Lines 378-385: the mirror's document is written from
\* savedTracksPlaylistFull, whose id is read first; sleep(1000).
RunWriteMirror ==
    /\ pc = "writeMirror"
    /\ IF savedTracksPlaylistFull.defined
       THEN /\ writes' = Append(writes,
                 Doc("playlists/", savedTracksPlaylistFull.id,
                     savedTracksPlaylistFull.ok,
                     Len(savedTracksPlaylistFull.tracks),
                     savedTracksPlaylistFull.tracks))
            /\ sleeps' = Append(sleeps, 1000)
            /\ pc' = "shows"
            /\ UNCHANGED thrown
       ELSE /\ pc' = "threw"
            /\ thrown' = Thrown("TypeError")
            /\ UNCHANGED <<writes, sleeps>>
    /\ UNCHANGED <<env, library, remotePlaylists, runFaults, requests,
                   inflight, mutations, accessToken, tracks, playlists, idx,
                   savedTracksPlaylist, savedTracksPlaylistFull,
                   playlistTrackUris, savedTrackUris, topPc, topOk,
                   mutationTracks, chunkI>>
    /\ UNCHANGED notRun

\* getAllSavedShows, the shows document, sleep(1000).
RunSavedShows(kind) ==
    /\ pc = "shows"
    /\ kind \in RunAnswers
    /\ runFaults' = runFaults + RunFault(kind)
    /\ requests' = requests (+)
                   SetToBag(SavedRequests(kind, "SHOWS", "", ShowIds))
    /\ IF kind = "ok"
       THEN LET shows == GetAllSaved(ShowIds)
            IN  /\ writes' = Append(writes,
                     Doc("shows", "", TRUE, Len(shows), shows))
                /\ sleeps' = Append(sleeps, 1000)
                /\ idx' = 1
                /\ pc' = "showLoop"
                /\ UNCHANGED thrown
       ELSE /\ pc' = "threw"
            /\ thrown' = SavedError(kind)
            /\ UNCHANGED <<writes, sleeps, idx>>
    /\ UNCHANGED <<env, library, remotePlaylists, inflight, mutations,
                   accessToken, tracks, playlists, savedTracksPlaylist,
                   savedTracksPlaylistFull, playlistTrackUris,
                   savedTrackUris, topPc, topOk, mutationTracks, chunkI>>
    /\ UNCHANGED notRun

\* One turn of the show loop up to its sleep: getShow and the show's
\* document, named after the id of the object getShow returned.
RunGetShow(kParent, kChild) ==
    /\ pc = "showLoop"
    /\ idx <= Len(ShowIds)
    /\ kParent \in RunAnswers
    /\ kChild \in RunAnswers
    /\ runFaults + RunFault(kParent) + RunFault(kChild) <= MaxFaults
    /\ runFaults' = runFaults + RunFault(kParent) + RunFault(kChild)
    /\ LET id   == ShowIds[idx]
           show == Detail(kParent = "ok", id, 0, GetAllSaved(ShowEpisodes))
       IN  /\ requests' = requests (+)
                SetToBag({Request("GET", "SHOW", id, 0, 0, "", <<>>)}
                   \union SavedRequests(kChild, "SHOW_EPISODES", id, ShowEpisodes))
           /\ IF kChild # "ok" \/ kParent = "nonJson"
              THEN /\ pc' = "threw"
                   /\ thrown' = IF kChild # "ok" THEN SavedError(kChild)
                                ELSE Thrown("SyntaxError")
                   /\ UNCHANGED writes
              ELSE /\ writes' = Append(writes,
                        Doc("shows/", show.id, show.ok, Len(show.tracks),
                            show.tracks))
                   /\ pc' = "showSleep"
                   /\ UNCHANGED thrown
    /\ UNCHANGED <<env, library, remotePlaylists, inflight, mutations,
                   sleeps, accessToken, tracks, playlists, idx,
                   savedTracksPlaylist, savedTracksPlaylistFull,
                   playlistTrackUris, savedTrackUris, topPc, topOk,
                   mutationTracks, chunkI>>
    /\ UNCHANGED notRun

\* sleep(500) at the end of a turn of the show loop.
RunShowSleep ==
    /\ pc = "showSleep"
    /\ sleeps' = AfterLoopSleep(sleeps)
    /\ idx' = idx + 1
    /\ pc' = "showLoop"
    /\ UNCHANGED <<env, library, remotePlaylists, runFaults, requests,
                   inflight, mutations, writes, accessToken, tracks,
                   playlists, savedTracksPlaylist, savedTracksPlaylistFull,
                   playlistTrackUris, savedTrackUris, topPc, topOk,
                   mutationTracks, chunkI, thrown>>
    /\ UNCHANGED notRun

\* The show loop is over: log(`Done!`).
RunDone ==
    /\ pc = "showLoop"
    /\ idx > Len(ShowIds)
    /\ pc' = "done"
    /\ UNCHANGED <<env, library, remotePlaylists, runFaults, requests,
                   inflight, mutations, writes, sleeps, accessToken, tracks,
                   playlists, idx, savedTracksPlaylist,
                   savedTracksPlaylistFull, playlistTrackUris,
                   savedTrackUris, topPc, topOk, mutationTracks, chunkI, thrown>>
    /\ UNCHANGED notRun

\* A playlist of the account: a mirror holds any tracks, any other playlist
\* holds track a.
AccountPlaylist(id, shape, public, trackSet) ==
    [id |-> id, name |-> shape.name, description |-> shape.description,
     public |-> public, snapshot_id |-> 1,
     tracks |-> IF IsMirror(shape) THEN trackSet ELSE {"a"}]

\* The playlists the account may hold when the run starts.
AccountPlaylists ==
    UNION {{[i \in 1..n |-> AccountPlaylist(PlaylistIds[i], c[i][1], c[i][2], c[i][3])] :
              c \in [1..n -> {x \in PlaylistShapes \X BOOLEAN \X PlaylistTrackSets :
                                IsMirror(x[1]) \/ x[3] = {}}]} :
           n \in 0..Len(PlaylistIds)}

RunIdle ==
    /\ env = [n \in Range(CredentialNames) \union {"SPOTIFY_PUBLIC_PLAYLISTS_ONLY"}
                |-> Unset]
    /\ library = {}
    /\ remotePlaylists = <<>>
    /\ runFaults = 0
    /\ requests = EmptyBag
    /\ inflight = {}
    /\ mutations = <<>>
    /\ writes = <<>>
    /\ sleeps = <<>>
    /\ pc = "off"
    /\ thrown = NoError
    /\ accessToken = ""
    /\ tracks = <<>>
    /\ playlists = <<>>
    /\ idx = 1
    /\ savedTracksPlaylist = UndefinedPlaylist
    /\ savedTracksPlaylistFull = UndefinedPlaylist
    /\ playlistTrackUris = {}
    /\ savedTrackUris = {}
    /\ topPc = [fn \in TopFunctions |-> "idle"]
    /\ topOk = [fn \in TopFunctions |-> FALSE]
    /\ mutationTracks = <<>>
    /\ chunkI = 0

\* The run starts with any credentials set, empty or missing; the remote
\* account matters only to a run whose credentials are all there.
RunInit ==
    /\ env \in [Range(CredentialNames) \union {"SPOTIFY_PUBLIC_PLAYLISTS_ONLY"}
                  -> CredentialValues \union FlagValues]
    /\ \A n \in Range(CredentialNames) : env[n] \in CredentialValues
    /\ env["SPOTIFY_PUBLIC_PLAYLISTS_ONLY"] \in FlagValues
    /\ library \in SUBSET TrackUris
    /\ remotePlaylists \in AccountPlaylists
    /\ Len(Missing(env)) > 0 =>
         /\ env["SPOTIFY_PUBLIC_PLAYLISTS_ONLY"] = Unset
         /\ library = {}
         /\ remotePlaylists = <<>>
    /\ runFaults = 0
    /\ requests = EmptyBag
    /\ inflight = {}
    /\ mutations = <<>>
    /\ writes = <<>>
    /\ sleeps = <<>>
    /\ pc = "start"
    /\ thrown = NoError
    /\ accessToken = ""
    /\ tracks = <<>>
    /\ playlists = <<>>
    /\ idx = 1
    /\ savedTracksPlaylist = UndefinedPlaylist
    /\ savedTracksPlaylistFull = UndefinedPlaylist
    /\ playlistTrackUris = {}
    /\ savedTrackUris = {}
    /\ topPc = [fn \in TopFunctions |-> "idle"]
    /\ topOk = [fn \in TopFunctions |-> FALSE]
    /\ mutationTracks = <<>>
    /\ chunkI = 0

AnswerKinds == {"ok", "errJson", "nonJson"}

RunNext ==
    \/ RunCheckConfig
    \/ \E kind \in AnswerKinds \union {"noField"} : RunCreateClient(kind)
    \/ \E kind \in AnswerKinds : RunGetProfile(kind)
    \/ \E kind \in AnswerKinds : RunSavedTracks(kind)
    \/ \E kind \in AnswerKinds : RunSavedAlbums(kind)
    \/ \E kind \in AnswerKinds : RunSavedEpisodes(kind)
    \/ RunTopStart
    \/ \E fn \in TopFunctions, kind \in AnswerKinds : RunTopResponse(fn, kind)
    \/ RunTopJoin
    \/ \E kind \in AnswerKinds : RunFollowing(kind)
    \/ \E kind \in AnswerKinds : RunSavedPlaylists(kind)
    \/ \E kParent, kChild \in AnswerKinds : RunGetPlaylist(kParent, kChild)
    \/ RunPlaylistSleep
    \/ RunLoopExit
    \/ \E kind \in AnswerKinds : RunCreatePlaylist(kind)
    \/ RunDelete
    \/ \E kind \in AnswerKinds : RunDeleteChunk(kind)
    \/ RunDeleteDone
    \/ RunAdd
    \/ \E kind \in AnswerKinds : RunAddChunk(kind)
    \/ RunAddDone
    \/ RunWriteMirror
    \/ \E kind \in AnswerKinds : RunSavedShows(kind)
    \/ \E kParent, kChild \in AnswerKinds : RunGetShow(kParent, kChild)
    \/ RunShowSleep
    \/ RunDone

----------------------------------------------------------------------------
(* The comparators and Array.prototype.sort                                *)

\* The strings of the model and their rank under localeCompare with
\* sensitivity "base", which tells neither case nor accents apart: "Ab" and
\* "ab" rank alike, and so do the ids "1a" and "1A".
BaseRank(s) ==
    CASE s = "" -> 0
      [] s \in {"1a", "1A"} -> 1
      [] s = "2b" -> 2
      [] s \in {"Ab", "ab"} -> 3
      [] s = "b" -> 4
      [] s = "Liked Songs (Mirror)" -> 5

\* a.localeCompare(b, undefined, { sensitivity: "base" })
compareString(a, b) == BaseRank(a) - BaseRank(b)

\* x || y on numbers: y when x is 0.
OrElse(x, y) == IF x # 0 THEN x ELSE y

\* The mutant of compareNamedEntity: the id is not looked at.
compareNamedEntityNameOnly(a, b) == compareString(a.name, b.name)

compareNamedEntity(a, b) ==
    OrElse(compareString(a.name, b.name), compareString(a.id, b.id))

\* new Date(b).getTime() - new Date(a).getTime(), dates given as day numbers.
compareDateString(a, b) == b - a

compareSaved(a, b) == compareDateString(a.added_at, b.added_at)

compareTrack(a, b) ==
    OrElse(compareSaved(a, b),
    OrElse(compareNamedEntity(a.track.artists[1], b.track.artists[1]),
    OrElse(compareNamedEntity(a.track.album, b.track.album),
    OrElse(a.track.disc_number - b.track.disc_number,
           a.track.track_number - b.track.track_number))))

compareAlbum(a, b) ==
    OrElse(compareSaved(a, b),
    OrElse(compareNamedEntity(a.album.artists[1], b.album.artists[1]),
           compareNamedEntity(a.album, b.album)))

compareEpisode(a, b) ==
    OrElse(compareSaved(a, b),
    OrElse(compareNamedEntity(a.episode.show, b.episode.show),
           compareDateString(a.episode.release_date, b.episode.release_date)))

compareShow(a, b) ==
    OrElse(compareSaved(a, b), compareNamedEntity(a.show, b.show))

\* The display_name of an owner who has none (null or undefined).
NoDisplayName == "<no display name>"

\* owner.display_name || "": the name, or "" when there is none.
OrEmpty(name) == IF name = NoDisplayName THEN "" ELSE name

\* The mutant of comparePlaylist: the playlist's own name and id first.
comparePlaylistOwnLast(a, b) ==
    OrElse(compareNamedEntity(a, b),
    OrElse(compareString(OrEmpty(a.owner.display_name),
                         OrEmpty(b.owner.display_name)),
           compareString(a.owner.id, b.owner.id)))

comparePlaylist(a, b) ==
    OrElse(compareString(OrEmpty(a.owner.display_name),
                         OrEmpty(b.owner.display_name)),
    OrElse(compareString(a.owner.id, b.owner.id),
           compareNamedEntity(a, b)))

\* The collections main() sorts, and the comparator of each.
SortKinds == {"tracks", "albums", "episodes", "shows", "playlists", "following"}

Compare(kind, a, b) ==
    CASE kind = "tracks" -> compareTrack(a, b)
      [] kind = "albums" -> compareAlbum(a, b)
      [] kind = "episodes" -> compareEpisode(a, b)
      [] kind = "shows" -> compareShow(a, b)
      [] kind = "playlists" -> comparePlaylist(a, b)
      [] kind = "following" -> compareNamedEntity(a, b)

\* Array.prototype.sort(compare) on an array of two: the sort is stable, so
\* the two are swapped only when compare puts the first after the second.
SortPair(kind, arr) ==
    IF Compare(kind, arr[1], arr[2]) > 0 THEN <<arr[2], arr[1]>> ELSE arr

\* The ids two different items may have: ids that differ in more than case,
\* or in case alone.
ItemIdPairs == {<<"1a", "2b">>, <<"1a", "1A">>}

\* The names and dates the items are given.
ItemNames == {"Ab", "ab"}

ItemDates == {1, 2}

ItemNumbers == {1, 2}

\* The artists, albums and shows items refer to.
Entities ==
    {[name |-> "Ab", id |-> "2b"], [name |-> "b", id |-> "2b"],
     [name |-> "ab", id |-> "1a"]}

\* The owners of the playlists sorted: one without a display name, and two
\* of the same display name.
Owners ==
    {[display_name |-> NoDisplayName, id |-> "2b"],
     [display_name |-> "b", id |-> "1a"],
     [display_name |-> "b", id |-> "2b"]}

\* The items of a kind that have the given id.
Items(kind, id) ==
    CASE kind = "tracks" ->
           {[added_at |-> d,
             track |-> [id |-> id, artists |-> <<e>>, album |-> al,
                        disc_number |-> dn, track_number |-> tn]] :
              d \in ItemDates, e \in Entities, al \in Entities,
              dn \in ItemNumbers, tn \in ItemNumbers}
      [] kind = "albums" ->
           {[added_at |-> d,
             album |-> [id |-> id, name |-> n, artists |-> <<e>>]] :
              d \in ItemDates, n \in ItemNames, e \in Entities}
      [] kind = "episodes" ->
           {[added_at |-> d,
             episode |-> [id |-> id, show |-> s, release_date |-> r]] :
              d \in ItemDates, s \in Entities, r \in ItemDates}
      [] kind = "shows" ->
           {[added_at |-> d, show |-> [id |-> id, name |-> n]] :
              d \in ItemDates, n \in ItemNames}
      [] kind = "playlists" ->
           {[id |-> id, name |-> n, description |-> NoDescription,
             owner |-> o] : n \in ItemNames \union {"b"}, o \in Owners}
           \union
           {[id |-> id, name |-> MirrorName,
             description |-> CreatedDescription, owner |-> o] : o \in Owners}
      [] kind = "following" ->
           {[id |-> id, name |-> n] : n \in ItemNames}

\* sort is called on a collection, and on the same collection handed over
\* the other way round.
SortCall ==
    /\ UNCHANGED notSort
    /\ sortPc = "idle"
    /\ sortResult' = SortPair(sortKind, sortInput)
    /\ sortResultPermuted' = SortPair(sortKind, Reverse(sortInput))
    /\ sortPc' = "done"
    /\ UNCHANGED <<sortKind, sortInput, sortLoopI, sortFetched, sortWritten,
                   sortMirror>>

\* One turn of main's loop over the playlists getAllSavedPlaylists returned:
\* getPlaylist(playlist.id), and then either the playlist is the mirror and
\* is kept in savedTracksPlaylist, or writeJSON of playlists/<playlist.id>.
PlaylistLoopTurn ==
    /\ UNCHANGED notSort
    /\ sortPc = "done"
    /\ sortKind = "playlists"
    /\ sortLoopI <= Len(sortResult)
    /\ LET playlist == sortResult[sortLoopI]
       IN  /\ sortFetched' = Append(sortFetched, playlist.id)
           /\ IF IsMirror(playlist)
              THEN /\ sortMirror' = playlist.id
                   /\ UNCHANGED sortWritten
              ELSE /\ sortWritten' = Append(sortWritten, playlist.id)
                   /\ UNCHANGED sortMirror
    /\ sortLoopI' = sortLoopI + 1
    /\ UNCHANGED <<sortKind, sortInput, sortPc, sortResult,
                   sortResultPermuted>>

\* After the loop and the reconciliation of the mirror, writeJSON of
\* playlists/<savedTracksPlaylistFull.id>; with no mirror found the run
\* creates one and writes no document of it.
PlaylistWriteMirror ==
    /\ UNCHANGED notSort
    /\ sortPc = "done"
    /\ sortKind = "playlists"
    /\ sortLoopI > Len(sortResult)
    /\ sortWritten' = IF sortMirror = UndefinedId THEN sortWritten
                      ELSE Append(sortWritten, sortMirror)
    /\ sortPc' = "written"
    /\ UNCHANGED <<sortKind, sortInput, sortResult, sortResultPermuted,
                   sortLoopI, sortFetched, sortMirror>>

SortIdle ==
    /\ sortKind = "following"
    /\ sortInput = <<>>
    /\ sortPc = "off"
    /\ sortResult = <<>>
    /\ sortResultPermuted = <<>>
    /\ sortLoopI = 1
    /\ sortFetched = <<>>
    /\ sortWritten = <<>>
    /\ sortMirror = UndefinedId

SortInit ==
    /\ sortKind \in SortKinds
    /\ \E ids \in ItemIdPairs :
          \E a \in Items(sortKind, ids[1]), b \in Items(sortKind, ids[2]) :
             sortInput = <<a, b>>
    /\ sortPc = "idle"
    /\ sortResult = <<>>
    /\ sortResultPermuted = <<>>
    /\ sortLoopI = 1
    /\ sortFetched = <<>>
    /\ sortWritten = <<>>
    /\ sortMirror = UndefinedId

SortNext ==
    \/ SortCall
    \/ PlaylistLoopTurn
    \/ PlaylistWriteMirror

----------------------------------------------------------------------------
(* The mirror test of the playlist loop                                    *)

\* The names and descriptions a playlist handed to the test may have.
TestedNames ==
    {"Liked Songs (Mirror)", "LIKED SONGS (MIRROR)", "liked songs (mirror)",
     "Liked Songs (Mirror) 2", "My Liked Songs (Mirror)", "Liked Songs",
     "Chill mix"}

TestedDescriptions ==
    {NoDescription, "", "Synced by spotify-to-github",
     "Synced by Spotify-To-GitHub", "SPOTIFY-TO-GITHUB", "Spotify to GitHub",
     "My favourites", CreatedDescription}

\* The if of the playlist loop: the playlist is taken as the mirror, or else
\* written out.
MirClassify ==
    /\ UNCHANGED notMirror
    /\ mirPc = "idle"
    /\ mirSelected' = IsMirror(mirPlaylist)
    /\ mirWritten' = ~IsMirror(mirPlaylist)
    /\ mirPc' = "done"
    /\ UNCHANGED mirPlaylist

MirrorIdle ==
    /\ mirPlaylist = [name |-> "Chill mix", description |-> NoDescription]
    /\ mirPc = "off"
    /\ mirSelected = FALSE
    /\ mirWritten = FALSE

MirrorInit ==
    /\ mirPlaylist \in [name : TestedNames, description : TestedDescriptions]
    /\ mirPc = "idle"
    /\ mirSelected = FALSE
    /\ mirWritten = FALSE

MirrorNext == MirClassify

----------------------------------------------------------------------------
(* A second run of main() on what the first run left                       *)

\* The workflow starts main() again after a run in which no remote call
\* failed: a new process with the same environment against the remote as
\* the first run left it.
RunAgain ==
    /\ runNo = 1
    /\ pc \in {"done", "threw"}
    /\ accessToken = "token"
    /\ runFaults = 0
    /\ runNo' = 2
    /\ firstMirror' = savedTracksPlaylist.id
    /\ requests' = EmptyBag
    /\ inflight' = {}
    /\ mutations' = <<>>
    /\ writes' = <<>>
    /\ sleeps' = <<>>
    /\ pc' = "start"
    /\ thrown' = NoError
    /\ accessToken' = ""
    /\ tracks' = <<>>
    /\ playlists' = <<>>
    /\ idx' = 1
    /\ savedTracksPlaylist' = UndefinedPlaylist
    /\ savedTracksPlaylistFull' = UndefinedPlaylist
    /\ playlistTrackUris' = {}
    /\ savedTrackUris' = {}
    /\ topPc' = [fn \in TopFunctions |-> "idle"]
    /\ topOk' = [fn \in TopFunctions |-> FALSE]
    /\ mutationTracks' = <<>>
    /\ chunkI' = 0
    /\ UNCHANGED <<env, library, remotePlaylists, runFaults>>
    /\ UNCHANGED <<pageVars, topVars, mutVars, followVars, sortVars, mirrorVars,
                   assemblyVars, showVars, earlierVars>>

RerunIdle ==
    /\ runNo = 1
    /\ firstMirror = UndefinedId

RerunNext ==
    \/ RunNext
    \/ RunAgain

----------------------------------------------------------------------------
(* getPlaylist, getShow: a parent object assembled with its children       *)

\* The lengths of the child list the remote embeds in the parent object.
EmbeddedSizes == {0, 1, 100}

\* The endpoints of the parent and of its children.
ParentEndpoint(kind) == IF kind = "playlist" THEN "PLAYLIST" ELSE "SHOW"

ChildEndpoint(kind) ==
    IF kind = "playlist" THEN "PLAYLIST_TRACKS" ELSE "SHOW_EPISODES"

\* The remote parent object: a playlist embeds a page of its tracks, a show
\* a page of its episodes.
ParentObject(kind, embedded) ==
    IF kind = "playlist"
    THEN [id |-> "p1", name |-> "Chill mix", snapshot_id |-> 1,
          tracks |-> embedded]
    ELSE [id |-> "s1", name |-> "Some show", publisher |-> "Someone",
          episodes |-> embedded]

\* The mutant of Assemble: the parent is returned as the remote sent it.
AssembleEmbedded(kind, parent, children) == parent

\* const { tracks: _tracks, ...playlist } = await playlistResponse;
\* return { ...playlist, tracks } (and the same with episodes for a show).
Assemble(kind, parent, children) ==
    IF kind = "playlist"
    THEN [parent EXCEPT !.tracks = children]
    ELSE [parent EXCEPT !.episodes = children]

DetailRequest(endpoint, limit, offset) ==
    [endpoint |-> endpoint, limit |-> limit, offset |-> offset]

NoResult == [id |-> UndefinedId]

\* getPlaylist(id, {}) is called: getById issues the parent request and,
\* its promise not awaited, getAllPlaylistTracks issues the request for the
\* first page of the children.
DtCall ==
    /\ UNCHANGED notAssembly
    /\ dtPc = "idle"
    /\ dtRequests' = <<DetailRequest(ParentEndpoint(dtKind), 0, 0),
                       DetailRequest(ChildEndpoint(dtKind), PageLimit, 0)>>
    /\ dtPending' = {1, 2}
    /\ dtPc' = "children"
    /\ UNCHANGED <<dtKind, dtParent, dtChildren, dtArrival, dtFirst, dtRest,
                   dtTracks, dtResult>>

\* The parent response arrives, before, between or after the pages of the
\* children: its promise is settled and waits to be awaited.
DtParentResponse ==
    /\ UNCHANGED notAssembly
    /\ dtPc \in {"children", "parent"}
    /\ 1 \in dtPending
    /\ dtPending' = dtPending \ {1}
    /\ dtArrival' = Append(dtArrival, 1)
    /\ UNCHANGED <<dtKind, dtParent, dtChildren, dtPc, dtRequests, dtFirst,
                   dtRest, dtTracks, dtResult>>

\* The first page of the children arrives: getAllSaved issues the follow-up
\* requests.
DtFirstPage ==
    /\ UNCHANGED notAssembly
    /\ dtPc = "children"
    /\ 2 \in dtPending
    /\ LET first == PagingObject(dtChildren, dtRequests[2].limit,
                                 dtRequests[2].offset)
           more  == FollowUpRequests(first)
       IN  /\ dtFirst' = first
           /\ dtRequests' = dtRequests \o
                [i \in 1..Len(more) |->
                   DetailRequest(ChildEndpoint(dtKind), more[i].limit,
                                 more[i].offset)]
           /\ dtPending' = (dtPending \ {2}) \union
                           {2 + i : i \in 1..Len(more)}
    /\ dtArrival' = Append(dtArrival, 2)
    /\ UNCHANGED <<dtKind, dtParent, dtChildren, dtPc, dtRest, dtTracks,
                   dtResult>>

\* A follow-up page of the children arrives.
DtFollowPage(k) ==
    /\ UNCHANGED notAssembly
    /\ dtPc = "children"
    /\ k > 2
    /\ k \in dtPending
    /\ dtRest' = [dtRest EXCEPT ![k - 2] =
                    PagingObject(dtChildren, dtRequests[k].limit,
                                 dtRequests[k].offset)]
    /\ dtPending' = dtPending \ {k}
    /\ dtArrival' = Append(dtArrival, k)
    /\ UNCHANGED <<dtKind, dtParent, dtChildren, dtPc, dtRequests, dtFirst,
                   dtTracks, dtResult>>

\* getAllPlaylistTracks resolves: const tracks holds the first page's items
\* and the follow-up pages' items in request order; the parent's promise is
\* awaited next.
DtChildrenDone ==
    /\ UNCHANGED notAssembly
    /\ dtPc = "children"
    /\ dtPending \subseteq {1}
    /\ dtTracks' = dtFirst.items \o
                   Flatten([i \in 1..(Len(dtRequests) - 2) |-> dtRest[i].items])
    /\ dtPc' = "parent"
    /\ UNCHANGED <<dtKind, dtParent, dtChildren, dtRequests, dtPending,
                   dtArrival, dtFirst, dtRest, dtResult>>

\* The parent's promise is settled: the assembled object is returned.
DtReturn ==
    /\ UNCHANGED notAssembly
    /\ dtPc = "parent"
    /\ 1 \notin dtPending
    /\ dtResult' = Assemble(dtKind, dtParent, dtTracks)
    /\ dtPc' = "returned"
    /\ UNCHANGED <<dtKind, dtParent, dtChildren, dtRequests, dtPending,
                   dtArrival, dtFirst, dtRest, dtTracks>>

AssemblyIdle ==
    /\ dtKind = "playlist"
    /\ dtParent = NoResult
    /\ dtChildren = <<>>
    /\ dtPc = "off"
    /\ dtRequests = <<>>
    /\ dtPending = {}
    /\ dtArrival = <<>>
    /\ dtFirst = NoPage
    /\ dtRest = [i \in 1..(MaxTotal \div PageLimit + 1) |-> NoPage]
    /\ dtTracks = <<>>
    /\ dtResult = NoResult

\* The remote holds a parent with any number of children up to MaxTotal and
\* embeds the first of them in the parent object.
AssemblyInit ==
    /\ dtKind \in {"playlist", "show"}
    /\ \E n \in 0..MaxTotal :
          /\ dtChildren = [i \in 1..n |-> i]
          /\ \E k \in EmbeddedSizes :
                dtParent = ParentObject(dtKind,
                              [items |-> [i \in 1..Min(k, n) |-> i],
                               total |-> n])
    /\ dtPc = "idle"
    /\ dtRequests = <<>>
    /\ dtPending = {}
    /\ dtArrival = <<>>
    /\ dtFirst = NoPage
    /\ dtRest = [i \in 1..(MaxTotal \div PageLimit + 1) |-> NoPage]
    /\ dtTracks = <<>>
    /\ dtResult = NoResult

AssemblyNext ==
    \/ DtCall
    \/ DtParentResponse
    \/ DtFirstPage
    \/ \E k \in 3..(MaxTotal \div PageLimit + 3) : DtFollowPage(k)
    \/ DtChildrenDone
    \/ DtReturn

----------------------------------------------------------------------------
(* main: the loop over the saved shows                                     *)

\* The failure responses the remote gives during one loop.
MaxShowFaults == 2

\* The ids of the shows an account may have saved.
SavedShowIds == {"s1", "s2", "s3"}

\* The name writeJSON is called with for a show: `shows/${show.id}`, the id
\* being the one of the object getShow returned.
ShowDocument(show) == <<"shows/", show.id>>

\* One turn of the loop: getShow(savedShow.show.id, {}) and, in its then,
\* writeJSON of the show. getShow rejects when the episodes cannot be
\* paginated or the parent's body is not JSON; a JSON error body as parent
\* response is returned like a show.
SlGetShow(kParent, kChild) ==
    /\ UNCHANGED notShow
    /\ slPc = "loop"
    /\ slI <= Len(slShows)
    /\ {kParent, kChild} \subseteq {"ok", "errJson", "nonJson"}
    /\ slFaults + Fault(kParent) + Fault(kChild) <= MaxShowFaults
    /\ slFaults' = slFaults + Fault(kParent) + Fault(kChild)
    /\ LET show == Detail(kParent = "ok", slShows[slI], 0, <<>>)
       IN  IF kChild # "ok" \/ kParent = "nonJson"
           THEN /\ slPc' = "threw"
                /\ UNCHANGED slWrites
           ELSE /\ slWrites' = Append(slWrites, ShowDocument(show))
                /\ slPc' = "sleep"
    /\ UNCHANGED <<slShows, slI>>

\* await sleep(500), and the next turn.
SlSleep ==
    /\ UNCHANGED notShow
    /\ slPc = "sleep"
    /\ slI' = slI + 1
    /\ slPc' = "loop"
    /\ UNCHANGED <<slShows, slFaults, slWrites>>

\* The loop is over.
SlDone ==
    /\ UNCHANGED notShow
    /\ slPc = "loop"
    /\ slI > Len(slShows)
    /\ slPc' = "done"
    /\ UNCHANGED <<slShows, slFaults, slI, slWrites>>

ShowLoopIdle ==
    /\ slShows = <<>>
    /\ slFaults = 0
    /\ slPc = "off"
    /\ slI = 1
    /\ slWrites = <<>>

\* The saved shows have distinct ids.
ShowLoopInit ==
    /\ \E n \in 0..Cardinality(SavedShowIds) :
          /\ slShows \in [1..n -> SavedShowIds]
          /\ NoDuplicates(slShows)
    /\ slFaults = 0
    /\ slPc = "loop"
    /\ slI = 1
    /\ slWrites = <<>>

ShowLoopNext ==
    \/ \E kParent, kChild \in {"ok", "errJson", "nonJson"} :
          SlGetShow(kParent, kChild)
    \/ SlSleep
    \/ SlDone

----------------------------------------------------------------------------
(* The earlier compareTrack                                                *)

\* The earlier compareTrack: by date; then, on one album, by disc and track
\* number; else, for one first artist, by album name; else by the first
\* artists' names. The ids are compared with ===.
compareTrackEarlier(a, b) ==
    LET byDate == compareSaved(a, b)
    IN  IF byDate # 0 THEN byDate
        ELSE IF a.track.album.id = b.track.album.id
        THEN IF a.track.disc_number = b.track.disc_number
             THEN a.track.track_number - b.track.track_number
             ELSE a.track.disc_number - b.track.disc_number
        ELSE IF a.track.artists[1].id = b.track.artists[1].id
        THEN compareString(a.track.album.name, b.track.album.name)
        ELSE compareString(a.track.artists[1].name, b.track.artists[1].name)

\* The albums and the first artists of the tracks compared; an album may
\* carry tracks of several first artists.
EarlierAlbums == {[id |-> "1a", name |-> "Ab"], [id |-> "2b", name |-> "b"]}

EarlierArtists ==
    {[id |-> "1a", name |-> "1a"], [id |-> "2b", name |-> "Ab"],
     [id |-> "b", name |-> "b"]}

EarlierTracks ==
    {[added_at |-> d,
      track |-> [album |-> al, artists |-> <<ar>>, disc_number |-> 1,
                 track_number |-> tn]] :
       d \in ItemDates, al \in EarlierAlbums, ar \in EarlierArtists,
       tn \in ItemNumbers}

\* sort calls the comparator on the pairs of the three tracks.
EtCompare ==
    /\ UNCHANGED notEarlier
    /\ etPc = "idle"
    /\ etOrder' = [ab |-> compareTrackEarlier(etTracks[1], etTracks[2]),
                   bc |-> compareTrackEarlier(etTracks[2], etTracks[3]),
                   ac |-> compareTrackEarlier(etTracks[1], etTracks[3])]
    /\ etPc' = "done"
    /\ UNCHANGED etTracks

EarlierIdle ==
    /\ etTracks = <<>>
    /\ etPc = "off"
    /\ etOrder = [ab |-> 0, bc |-> 0, ac |-> 0]

EarlierInit ==
    /\ etTracks \in [1..3 -> EarlierTracks]
    /\ etPc = "idle"
    /\ etOrder = [ab |-> 0, bc |-> 0, ac |-> 0]

EarlierNext == EtCompare

----------------------------------------------------------------------------
(* Specifications                                                          *)

InitPage == PageInit /\ TopIdle /\ MutIdle /\ RunIdle /\ FollowIdle /\ SortIdle
    /\ MirrorIdle /\ RerunIdle /\ AssemblyIdle
    /\ ShowLoopIdle /\ EarlierIdle

\* getAllSaved run against every static remote collection of up to MaxTotal
\* items.
SpecPage == InitPage /\ [][PageNext]_vars

\* getAllSaved against a collection that another client changes meanwhile.
PageChangeNext ==
    \/ PageNext
    \/ PgRemoteChange

SpecPageChange == InitPage /\ [][PageChangeNext]_vars

InitTop == TopInit /\ PageIdle /\ MutIdle /\ RunIdle /\ FollowIdle /\ SortIdle
    /\ MirrorIdle /\ RerunIdle /\ AssemblyIdle
    /\ ShowLoopIdle /\ EarlierIdle

\* getAllTopItems run against every remote holding up to MaxTop items.
SpecTop == InitTop /\ [][TopNext]_vars

InitMut == MutInit /\ PageIdle /\ TopIdle /\ RunIdle /\ FollowIdle /\ SortIdle
    /\ MirrorIdle /\ RerunIdle /\ AssemblyIdle
    /\ ShowLoopIdle /\ EarlierIdle

\* One add or remove of up to MaxRefs track refs on a remote playlist.
SpecMut == InitMut /\ [][MutNext]_vars

InitRun == RunInit /\ PageIdle /\ TopIdle /\ MutIdle /\ FollowIdle /\ SortIdle
    /\ MirrorIdle /\ RerunIdle /\ AssemblyIdle
    /\ ShowLoopIdle /\ EarlierIdle

\* One run of main() against every environment and remote account of the
\* model, the remote failing at most MaxFaults requests.
Spec == InitRun /\ [][RunNext]_vars

InitFollow == FollowInit /\ PageIdle /\ TopIdle /\ MutIdle /\ RunIdle /\ SortIdle
    /\ MirrorIdle /\ RerunIdle /\ AssemblyIdle
    /\ ShowLoopIdle /\ EarlierIdle

\* getAllFollowing run against every cursor chain of up to MaxChain pages.
SpecFollow == InitFollow /\ [][FollowNext]_vars

InitFollowLive == FollowInitEndless /\ PageIdle /\ TopIdle /\ MutIdle /\ RunIdle
    /\ SortIdle /\ MirrorIdle /\ RerunIdle /\ AssemblyIdle
    /\ ShowLoopIdle /\ EarlierIdle

\* The remote answers every request and the continuation of an await runs
\* once its promise has settled: a call that can take a step takes one.
SpecFollowLive == InitFollowLive /\ [][FollowNext]_vars /\ WF_vars(FollowNext)

InitSort ==
    SortInit /\ PageIdle /\ TopIdle /\ MutIdle /\ RunIdle /\ FollowIdle
    /\ MirrorIdle /\ RerunIdle /\ AssemblyIdle
    /\ ShowLoopIdle /\ EarlierIdle

\* sort run, with each comparator, on every pair of different items of the
\* model and on the same pair the other way round.
SpecSort == InitSort /\ [][SortNext]_vars

InitMirror ==
    MirrorInit /\ PageIdle /\ TopIdle /\ MutIdle /\ RunIdle /\ FollowIdle
    /\ SortIdle /\ RerunIdle /\ AssemblyIdle
    /\ ShowLoopIdle /\ EarlierIdle

\* The mirror test run on every playlist of the tested names and
\* descriptions.
SpecMirror == InitMirror /\ [][MirrorNext]_vars

\* One run of main() and, if no remote call failed in it, a second run.
SpecRerun == InitRun /\ [][RerunNext]_vars

InitAssembly ==
    AssemblyInit /\ PageIdle /\ TopIdle /\ MutIdle /\ RunIdle /\ FollowIdle
    /\ SortIdle /\ MirrorIdle /\ RerunIdle /\ ShowLoopIdle
    /\ EarlierIdle

\* getPlaylist and getShow run against every remote parent of up to MaxTotal
\* children.
SpecAssembly == InitAssembly /\ [][AssemblyNext]_vars

InitShowLoop ==
    ShowLoopInit /\ PageIdle /\ TopIdle /\ MutIdle /\ RunIdle /\ FollowIdle
    /\ SortIdle /\ MirrorIdle /\ RerunIdle /\ AssemblyIdle /\ EarlierIdle

\* The show loop over every list of saved shows with distinct ids.
SpecShowLoop == InitShowLoop /\ [][ShowLoopNext]_vars

InitEarlier ==
    EarlierInit /\ PageIdle /\ TopIdle /\ MutIdle /\ RunIdle /\ FollowIdle
    /\ SortIdle /\ MirrorIdle /\ RerunIdle /\ AssemblyIdle /\ ShowLoopIdle

\* The earlier compareTrack on every triple of saved tracks.
SpecEarlier == InitEarlier /\ [][EarlierNext]_vars

----------------------------------------------------------------------------
\* C1: against a static remote serving pages of limit 50, getAllSaved returns
\* exactly `total` items, each remote item exactly once, for every total up to
\* MaxTotal, among them 0, 1, 49, 50, 51, 100 and 101.
OffsetPaginationComplete ==
    (pgPc = "done" /\ serverCap = PageLimit) =>
        /\ Len(pgResult) = Len(collection)
        /\ NoDuplicates(pgResult)
        /\ Range(pgResult) = Range(collection)

\* A call over 101 items has returned, its two follow-up pages having arrived
\* in reverse order.
OffsetPaginationWitness ==
    /\ pgPc = "done"
    /\ serverCap = PageLimit
    /\ Len(collection) = 101
    /\ pgArrival = <<2, 1>>
    /\ Len(pgResult) = 101

----------------------------------------------------------------------------
CeilDiv(n, d) == (n + d - 1) \div d

\* C5: a mutation of N track refs never issues a batch of more than 100
\* items nor more than ceil(N/100) calls, never issues a call right after
\* another without the pacing delay, and once it has returned it has issued
\* exactly ceil(N/100) calls, call k carrying min(100, N - 100(k-1)) items and
\* each followed by the 100 ms sleep; so N = 250 gives 100, 100, 50 and N = 0
\* gives no call.
MutationBatching ==
    LET N == Len(mtTracks)
        ApiMaxBatch == 100
        size(k) == Len(RequestUris(mtCalls[k]))
    IN  /\ \A k \in 1..Len(mtCalls) : size(k) \in 1..ApiMaxBatch
        /\ Len(mtCalls) <= CeilDiv(N, ApiMaxBatch)
        /\ \A j \in 1..(Len(mtEvents) - 1) :
             mtEvents[j].e = "call" => mtEvents[j + 1].e = "sleep"
        /\ mtPc = "returned" =>
             /\ Len(mtCalls) = CeilDiv(N, ApiMaxBatch)
             /\ \A k \in 1..Len(mtCalls) :
                  size(k) = Min(ApiMaxBatch, N - ApiMaxBatch * (k - 1))
             /\ Len(mtEvents) = 2 * Len(mtCalls)
             /\ \A k \in 1..Len(mtCalls) :
                  /\ mtEvents[2 * k - 1] = [e |-> "call", n |-> size(k)]
                  /\ mtEvents[2 * k] = [e |-> "sleep", n |-> 100]

\* An add of 250 URIs has returned after calls of 100, 100 and 50 items.
MutationBatchingWitness ==
    /\ mtPc = "returned"
    /\ mtOp = "add"
    /\ Len(mtTracks) = 250
    /\ Len(mtCalls) = 3
    /\ Len(mtCalls[1].body.uris) = 100
    /\ Len(mtCalls[2].body.uris) = 100
    /\ Len(mtCalls[3].body.uris) = 50
    /\ Len(mtEvents) = 6

\* C6: once the remote has answered chunk k with a failure, no chunk after k
\* is issued and the operation does not return to its caller.
MutationFailureAborts ==
    \A k \in 1..Len(mtAnswers) :
        mtAnswers[k] # "ok" => (Len(mtCalls) = k /\ mtPc # "returned")

\* C10: getAllTopItems issues its requests in the order (limit 49, offset 0),
\* (limit 50, offset 49) and never a third, whatever total the remote
\* reports; once it has returned it has issued both and its result is the
\* first response's items followed by the second's.
TopItemsProtocol ==
    LET protocol == <<[limit |-> 49, offset |-> 0], [limit |-> 50, offset |-> 49]>>
    IN  /\ Len(tpRequests) <= 2
        /\ \A k \in 1..Len(tpRequests) : tpRequests[k] = protocol[k]
        /\ tpPc = "done" =>
             /\ tpRequests = protocol
             /\ tpResult = tpFirst.items \o tpRest.items
             /\ tpResult = SubSeq(topItems, 1, Min(99, Len(topItems)))

\* A call has returned all 99 items of a remote that reports a total of 1000.
TopItemsWitness ==
    /\ tpPc = "done"
    /\ topReported = 1000
    /\ Len(topItems) = 99
    /\ Len(tpFirst.items) = 49
    /\ Len(tpRest.items) = 50
    /\ Len(tpResult) = 99

----------------------------------------------------------------------------
(* Claims about one run of main()                                          *)

\* The remove calls and the add calls the run has issued, in issue order.
RemoveCalls == SelectSeq(mutations, LAMBDA c : c.op = "remove")

AddCalls == SelectSeq(mutations, LAMBDA c : c.op = "add")

\* The positions of main() after the add step.
PastReconcile == {"writeMirror", "shows", "showLoop", "showSleep", "done"}

\* The calls carry exactly the URIs of the set S, each once, in one call, and
\* there is a call only if S is not empty.
CarryExactly(calls, S) ==
    /\ Len(calls) = (IF S = {} THEN 0 ELSE 1)
    /\ \A i \in 1..Len(calls) :
          /\ Range(calls[i].uris) = S
          /\ Len(calls[i].uris) = Cardinality(S)

\* C2: for an existing mirror with current URI set C (the non-null tracks the
\* remote mirror holds when the run decides) and desired set D (the saved
\* tracks), a run that gets past the add step has issued a remove call iff
\* C \ D is not empty, carrying exactly C \ D, and an add call iff D \ C is not
\* empty, carrying exactly D \ C, the removal first; with C = D it has issued
\* no mutation at all.
ReconciliationMinimal ==
    /\ pc = "delete" =>
          /\ playlistTrackUris =
                RemotePlaylist(savedTracksPlaylist.id).tracks \ {NullTrack}
          /\ savedTrackUris = library
    /\ (pc \in PastReconcile /\ savedTracksPlaylistFull.defined) =>
          LET C == playlistTrackUris
              D == library
          IN  /\ CarryExactly(RemoveCalls, {u \in C : u \notin D})
              /\ CarryExactly(AddCalls, {u \in D : u \notin C})
              /\ mutations = RemoveCalls \o AddCalls
              /\ C = D => mutations = <<>>
              /\ \A i \in 1..Len(mutations) :
                    mutations[i].id = savedTracksPlaylist.id

\* A run over a mirror holding b alone, with a alone saved, has finished: it
\* issued one remove carrying b and then one add carrying a.
ReconciliationWitness ==
    /\ pc = "done"
    /\ savedTracksPlaylistFull.defined
    /\ [i \in 1..Len(mutations) |-> <<mutations[i].op, mutations[i].uris>>]
         = << <<"remove", <<"b">> >>, <<"add", <<"a">> >> >>

\* The run has ended, by returning or by rejecting.
RunEnded == pc \in {"done", "threw"}

\* C3: when a run in which no remote call failed has ended, the non-null
\* track URIs of the remote playlist it synchronised are exactly the URIs of
\* the saved tracks.
Convergence ==
    (RunEnded /\ accessToken = "token" /\ runFaults = 0) =>
        /\ savedTracksPlaylist.defined
        /\ savedTracksPlaylist.id # UndefinedId
        /\ RemotePlaylist(savedTracksPlaylist.id).tracks \ {NullTrack} = library

\* A run without failures has ended after removing from and adding to a
\* mirror that also holds an unavailable track.
ConvergenceWitness ==
    /\ pc = "done"
    /\ runFaults = 0
    /\ library = {"a"}
    /\ Len(RemoveCalls) = 1
    /\ Len(AddCalls) = 1
    /\ RemotePlaylist(savedTracksPlaylist.id).tracks = {"a", NullTrack}

\* The documents written under playlists/<the synchronised mirror's id>.
MirrorDocs ==
    SelectSeq(writes, LAMBDA d : d.name = "playlists/" /\
                                 d.key = savedTracksPlaylistFull.id)

\* C4: with a and b saved and a mirror holding b alone, a run without
\* failures issues one add call carrying a alone and no remove call, and the
\* playlists/<mirror id> document it writes lists the URIs a and b.
EndToEndScenario ==
    (/\ pc = "done"
     /\ runFaults = 0
     /\ library = {"a", "b"}
     /\ Len(remotePlaylists) = 1
     /\ savedTracksPlaylistFull.defined
     /\ playlistTrackUris = {"b"}) =>
        /\ [i \in 1..Len(mutations) |-> <<mutations[i].op, mutations[i].uris>>]
             = << <<"add", <<"a">> >> >>
        /\ Len(MirrorDocs) = 1
        /\ Range(MirrorDocs[1].items) = {"a", "b"}

\* C7: once the token exchange has been answered without an access token,
\* the run issues no request other than the token exchange.
TokenFailureAborts ==
    accessToken = UndefinedToken =>
        \A r \in BagToSet(requests) : r.endpoint = "TOKEN"

\* C8: no document is written from a failed response, and a run in which the
\* remote answered a request with a failure never reaches Done.
TransportFailureAborts ==
    /\ \A i \in 1..Len(writes) : writes[i].ok
    /\ pc = "done" => (runFaults = 0 /\ accessToken = "token")

\* C9: when a required credential is unset or empty, the run does nothing
\* but reject with an error naming exactly the unset or empty credentials,
\* and issues no network request.
ConfigurationFailure ==
    LET absent == {n \in Range(CredentialNames) : env[n] \in {Unset, ""}}
    IN  absent # {} =>
            /\ pc \in {"start", "threw"}
            /\ pc = "threw" =>
                  /\ thrown.type = "Error"
                  /\ Range(thrown.missing) = absent
                  /\ Len(thrown.missing) = Cardinality(absent)
            /\ requests = EmptyBag
            /\ inflight = {}
            /\ accessToken = ""

\* The run has rejected with the client id empty and the client secret
\* unset: the error names these two.
ConfigurationWitness ==
    /\ pc = "threw"
    /\ env["SPOTIFY_CLIENT_ID"] = ""
    /\ env["SPOTIFY_CLIENT_SECRET"] = Unset
    /\ env["SPOTIFY_REFRESH_TOKEN"] = "secret"
    /\ thrown.missing = <<"SPOTIFY_CLIENT_ID", "SPOTIFY_CLIENT_SECRET">>

----------------------------------------------------------------------------
\* C11: getAllFollowing issues its first request without a cursor and every
\* further request with the cursor of the response before it, one request per
\* page of the chain and none after the page whose cursor is null; when it
\* returns it has issued as many requests as the chain has pages and returns
\* the items of all of them, each once.
CursorTermination ==
    /\ Len(fwRequests) <= Len(followChain)
    /\ \A k \in 1..Len(fwRequests) :
          fwRequests[k] = [limit |-> 50, after |-> k - 1]
    /\ fwPc = "done" =>
          /\ Len(fwRequests) = Len(followChain)
          /\ Len(fwResult) = SumSeq(followChain)
          /\ Range(fwResult) = 1..SumSeq(followChain)

\* A call over the chain of pages of 50, 50 and 7 artists has returned 107
\* items after three requests.
CursorTerminationWitness ==
    /\ fwPc = "done"
    /\ followChain = <<50, 50, 7>>
    /\ Len(fwRequests) = 3
    /\ Len(fwResult) = 107

\* C12: sorting a collection with its comparator gives the same sequence
\* whatever order the items were fetched in.
OrderingDeterminism ==
    sortPc = "done" => sortResult = sortResultPermuted

\* The names that equal "liked songs (mirror)" when case is ignored.
MirrorNames ==
    {"Liked Songs (Mirror)", "LIKED SONGS (MIRROR)", "liked songs (mirror)"}

\* The descriptions that contain spotify-to-github as written, and those
\* that contain it when case is ignored.
MarkedAsWritten == {"Synced by spotify-to-github", CreatedDescription}

MarkedAnyCase ==
    MarkedAsWritten \union {"Synced by Spotify-To-GitHub", "SPOTIFY-TO-GITHUB"}

\* C13 as stated: a playlist is taken as the mirror if and only if its name
\* is "liked songs (mirror)" ignoring case and its description contains
\* spotify-to-github.
MirrorIdentificationAsStated ==
    mirPc = "done" =>
        (mirSelected <=> /\ mirPlaylist.name \in MirrorNames
                         /\ mirPlaylist.description \in MarkedAsWritten)

\* C13, amended: a playlist is taken as the mirror if and only if its name
\* is "liked songs (mirror)" ignoring case and its description contains
\* spotify-to-github ignoring case; every other playlist, among them one of
\* that name with an unrelated, empty or absent description, is written out
\* instead.
MirrorIdentification ==
    mirPc = "done" =>
        /\ mirSelected <=> /\ mirPlaylist.name \in MirrorNames
                           /\ mirPlaylist.description \in MarkedAnyCase
        /\ mirWritten <=> ~mirSelected

\* The playlist LIKED SONGS (MIRROR) described as Synced by
\* spotify-to-github has been taken as the mirror.
MirrorIdentificationWitness ==
    /\ mirPc = "done"
    /\ mirPlaylist.name = "LIKED SONGS (MIRROR)"
    /\ mirPlaylist.description = "Synced by spotify-to-github"
    /\ mirSelected

\* The pacing delays of the chunk loops that have completed.
ChunkDelays == SelectSeq(sleeps, LAMBDA ms : ms = ChunkDelay)

\* C14: the run issues no remove call after an add call, and when it issues
\* an add call every remove call issued before has been answered and its
\* delay has elapsed: no request is in flight and there have been as many
\* chunk delays as remove and add calls.
RemovesBeforeAdds ==
    [][/\ mutations' = RemoveCalls' \o AddCalls' \/ Len(RemoveCalls') = 0
       /\ Len(AddCalls') > Len(AddCalls) =>
             /\ Len(RemoveCalls') = Len(RemoveCalls)
             /\ inflight = {}
             /\ Len(ChunkDelays) = Len(RemoveCalls) + Len(AddCalls)]_vars

\* The run has just issued its first add call, after a remove call that was
\* answered with success.
RemovesBeforeAddsWitness ==
    /\ pc = "addChunks"
    /\ runFaults = 0
    /\ Len(RemoveCalls) = 1
    /\ Len(AddCalls) = 1
    /\ Len(ChunkDelays) = 2

\* C15: whatever order the follow-up responses arrive in, getAllSaved returns
\* the items of its requests' pages joined in request order, the requests
\* being in ascending offset order with the first page first; against a
\* remote serving the limit of 50 the result is the remote collection in the
\* remote's order.
RequestOrderReassembly ==
    pgPc = "done" =>
        /\ pgRequests[1].offset = 0
        /\ \A k \in 1..(Len(pgRequests) - 1) :
              pgRequests[k].offset < pgRequests[k + 1].offset
        /\ pgResult =
              Flatten([k \in 1..Len(pgRequests) |->
                         PagingObject(collection, pgRequests[k].limit,
                                      pgRequests[k].offset).items])
        /\ serverCap = PageLimit => pgResult = collection

\* A call over 100 items has returned the collection in order although the
\* second follow-up page arrived before the first.
RequestOrderWitness ==
    /\ pgPc = "done"
    /\ Len(collection) = 100
    /\ serverCap = PageLimit
    /\ pgArrival = <<2, 1>>
    /\ pgResult = collection

\* The add and remove calls the run has issued, in issue order.
TrackCalls == SelectSeq(mutations, LAMBDA c : c.op \in {"add", "remove"})

\* The run has created a playlist and the remote holds it.
CreatedByRun ==
    /\ \E i \in 1..Len(mutations) : mutations[i].op = "create"
    /\ \E i \in 1..Len(remotePlaylists) : remotePlaylists[i].id = CreatedId

\* C16: all add and remove calls of a run target one and the same playlist,
\* and that playlist is a playlist of the account that satisfies the mirror
\* predicate or is the playlist this run created.
OnlyMirrorMutated ==
    \A i \in 1..Len(TrackCalls) :
        /\ TrackCalls[i].id = TrackCalls[1].id
        /\ \E k \in 1..Len(remotePlaylists) :
              /\ remotePlaylists[k].id = TrackCalls[i].id
              /\ \/ IsMirror(remotePlaylists[k])
                 \/ remotePlaylists[k].id = CreatedId /\ CreatedByRun

\* The positions of main() after the playlist loop has chosen between
\* creating and reconciling.
PastSelection ==
    {"delete", "deleteChunks", "add", "addChunks"} \union PastReconcile

\* C17: a run that follows a run without failures creates no playlist and
\* issues no add and no remove call, and the playlist it settles on as the
\* mirror is the one the first run synchronised, also when the first run
\* created it.
IdempotentReconciliation ==
    runNo = 2 =>
        /\ mutations = <<>>
        /\ pc # "create"
        /\ pc \in PastSelection =>
              /\ savedTracksPlaylist.defined
              /\ savedTracksPlaylist.id = firstMirror

\* A second run has finished after a first run that created the mirror and
\* added the saved tracks to it.
IdempotentWitness ==
    /\ runNo = 2
    /\ pc = "done"
    /\ firstMirror = CreatedId
    /\ library = {"a", "b"}
    /\ RemotePlaylist(CreatedId).tracks = {"a", "b"}

\* The resource kind a request belongs to is the endpoint it addresses.
KindsInFlight == {r.endpoint : r \in inflight}

\* C18. Strictly sequential phases: at no point of a run are requests of two
\* different resource kinds in flight at the same time. (The top artists and
\* the top tracks of one time range are fetched by two calls started
\* together and awaited with Promise.all, so a TOP_ARTISTS and a TOP_TRACKS
\* request are outstanding at once.)
SequentialPhases ==
    Cardinality(KindsInFlight) <= 1

\* The playlists the account held when the run enumerated them (the playlist
\* a run creates is appended to the account afterwards), and those of them
\* that are not public.
EnumeratedIds ==
    {remotePlaylists[i].id : i \in 1..Len(remotePlaylists)} \ {CreatedId}

NonPublicIds ==
    {id \in EnumeratedIds : ~RemotePlaylist(id).public}

\* The playlists the run has to process under the value of the flag.
ToProcessIds ==
    IF env["SPOTIFY_PUBLIC_PLAYLISTS_ONLY"] = "true"
    THEN EnumeratedIds \ NonPublicIds
    ELSE EnumeratedIds

\* The playlists a detail request or a request for a page of playlist tracks
\* has been issued for.
DetailFetchedIds ==
    {r.id : r \in {q \in BagToSet(requests) :
                     /\ q.method = "GET"
                     /\ q.endpoint \in {"PLAYLIST", "PLAYLIST_TRACKS"}}}

\* The playlists of the account a playlists/<id> document has been written
\* for, and the playlists documents written.
WrittenPlaylistIds ==
    {d.key : d \in {w \in Range(writes) : w.name = "playlists/"}}
        \cap EnumeratedIds

PlaylistsDocs == SelectSeq(writes, LAMBDA d : d.name = "playlists")

\* The playlist loop has ended without a failure.
PastLoop == {"create"} \union PastSelection

\* C19: when SPOTIFY_PUBLIC_PLAYLISTS_ONLY is "true", no non-public playlist
\* is detail-fetched, written to output, taken as the mirror or mutated, and
\* the playlists document lists and counts the public playlists only; with
\* any other value the document lists and counts every enumerated playlist.
\* In both cases, once the loop has ended every playlist to process has been
\* detail-fetched, and has been written out unless it satisfies the mirror
\* predicate, and the mirror is one of them if one of them satisfies it.
PublicOnlyFilter ==
    /\ DetailFetchedIds \subseteq ToProcessIds
    /\ WrittenPlaylistIds \subseteq ToProcessIds
    /\ savedTracksPlaylist.id \notin EnumeratedIds \ ToProcessIds
    /\ \A i \in 1..Len(mutations) :
          mutations[i].id \notin EnumeratedIds \ ToProcessIds
    /\ \A i \in 1..Len(PlaylistsDocs) :
          /\ PlaylistsDocs[i].total = Cardinality(ToProcessIds)
          /\ Len(PlaylistsDocs[i].items) = PlaylistsDocs[i].total
          /\ Range(PlaylistsDocs[i].items) = ToProcessIds
    /\ pc \in PastLoop =>
          /\ DetailFetchedIds = ToProcessIds
          /\ \A id \in ToProcessIds :
                IsMirror(RemotePlaylist(id)) \/ id \in WrittenPlaylistIds
          /\ (\E id \in ToProcessIds : IsMirror(RemotePlaylist(id))) =>
                /\ savedTracksPlaylist.id \in ToProcessIds
                /\ IsMirror(RemotePlaylist(savedTracksPlaylist.id))

\* The flag is "true", the account holds a private mirror and a public
\* playlist, and the run, not seeing the private mirror, has created a new
\* one and written its documents.
PublicOnlyWitness ==
    /\ env["SPOTIFY_PUBLIC_PLAYLISTS_ONLY"] = "true"
    /\ \E id \in NonPublicIds : IsMirror(RemotePlaylist(id))
    /\ ToProcessIds # {}
    /\ CreatedByRun
    /\ pc \in PastSelection

\* The URIs of the caller-supplied track refs, in the caller's order, and the
\* URIs of the batches sent so far, batch after batch in issue order.
InputUris == [k \in 1..Len(mtTracks) |-> UriOf(mtForm, mtTracks[k])]

SentUris == Flatten([k \in 1..Len(mtCalls) |-> RequestUris(mtCalls[k])])

\* The sleeps the operation has completed.
SleepsDone == Len(SelectSeq(mtEvents, LAMBDA ev : ev.e = "sleep"))

\* C20: at every point of an add or remove operation the batches sent so
\* far, concatenated in issue order, are the caller's sequence up to the
\* number of refs sent (nothing dropped, duplicated or reordered), and once
\* the operation has returned they are the whole sequence; a batch is sent
\* only when every batch before it has been answered and its delay has
\* completed.
BatchesPreserveInput ==
    /\ Len(SentUris) <= Len(InputUris)
    /\ SentUris = SubSeq(InputUris, 1, Len(SentUris))
    /\ mtPc = "returned" => SentUris = InputUris
    /\ IF mtPc = "awaiting"
       THEN /\ Len(mtAnswers) = Len(mtCalls) - 1
            /\ SleepsDone = Len(mtCalls) - 1
       ELSE /\ Len(mtAnswers) = Len(mtCalls)
            /\ SleepsDone \in {Len(mtCalls) - 1, Len(mtCalls)}
            /\ mtPc \in {"loop", "returned"} => SleepsDone = Len(mtCalls)

\* A remove of 250 track objects has returned: its third batch ends with the
\* caller's last ref.
BatchesPreserveWitness ==
    /\ mtPc = "returned"
    /\ mtOp = "remove"
    /\ mtForm = "object"
    /\ Len(mtTracks) = 250
    /\ Len(mtCalls) = 3
    /\ RequestUris(mtCalls[3])[50] = mtTracks[250].uri
    /\ RequestUris(mtCalls[2])[1] = mtTracks[101].uri

\* The first page has arrived and the follow-up requests have been issued.
FollowUpsIssued == pgPc \in {"rest", "done"}

\* The follow-up requests issued, in issue order.
FollowUps == SubSeq(pgRequests, 2, Len(pgRequests))

\* C21. Follow-up page count: after a first page reporting {limit, total},
\* getAllSaved issues exactly floor(total/limit) further requests, with the
\* offsets limit, 2*limit, ..., floor(total/limit)*limit, each carrying the
\* limit the first page reported, also when that limit is not the 50 asked
\* for.
FollowUpPageCount ==
    FollowUpsIssued =>
        /\ Len(FollowUps) = pgFirst.total \div pgFirst.limit
        /\ \A i \in 1..Len(FollowUps) :
              /\ FollowUps[i].limit = pgFirst.limit
              /\ FollowUps[i].offset = i * pgFirst.limit

\* C22. Exactly-divisible edge case: when total is a positive multiple of
\* limit, getAllSaved issues no page request whose offset is greater than or
\* equal to total, and returns exactly total items.
DivisibleNotFetchedPast ==
    (/\ FollowUpsIssued
     /\ pgFirst.total > 0
     /\ pgFirst.total % pgFirst.limit = 0) =>
        /\ \A k \in 1..Len(pgRequests) : pgRequests[k].offset < pgFirst.total
        /\ pgPc = "done" => Len(pgResult) = pgFirst.total

\* C23. Small-collection edge case: when the first page reports
\* total < limit (total = 0 included), getAllSaved issues no further request
\* and returns exactly the first page's items, which are the whole
\* collection.
SmallCollection ==
    (FollowUpsIssued /\ pgFirst.total < pgFirst.limit) =>
        /\ Len(pgRequests) = 1
        /\ pgPending = {}
        /\ pgPc = "done" =>
              /\ pgResult = pgFirst.items
              /\ pgResult = collection

\* A call over 49 items has returned them after its first request alone.
SmallCollectionWitness ==
    /\ pgPc = "done"
    /\ Len(collection) = 49
    /\ pgFirst.limit = 50
    /\ Len(pgRequests) = 1
    /\ Len(pgResult) = 49

CreateCalls == SelectSeq(mutations, LAMBDA c : c.op = "create")

\* One of the playlists the run has to process satisfies the mirror
\* predicate.
CandidateExists == \E id \in ToProcessIds : IsMirror(RemotePlaylist(id))

\* The positions of main() after the create step.
PastCreate == {"add", "addChunks"} \union PastReconcile

\* C24. Mirror creation: a run in which no enumerated playlist is a mirror
\* candidate issues exactly one create call once it is past the create step,
\* never a remove call, and by the end of the add step one add call carrying
\* exactly the saved URIs (none if nothing is saved), all of it after the
\* create call; a run in which a candidate exists issues no create call.
MirrorCreation ==
    /\ Len(CreateCalls) <= 1
    /\ CandidateExists => CreateCalls = <<>>
    /\ ~CandidateExists =>
          /\ RemoveCalls = <<>>
          /\ pc \in PastCreate =>
                /\ Len(CreateCalls) = 1
                /\ mutations[1].op = "create"
                /\ playlistTrackUris = {}
          /\ \A i \in 1..Len(AddCalls) :
                /\ Range(AddCalls[i].uris) = library
                /\ Len(AddCalls[i].uris) = Cardinality(library)
          /\ pc \in PastReconcile => CarryExactly(AddCalls, library)

\* The account holds an ordinary playlist and no mirror, two tracks are
\* saved, and the run has created the mirror and added both tracks to it.
MirrorCreationWitness ==
    /\ ~CandidateExists
    /\ ToProcessIds # {}
    /\ library = {"a", "b"}
    /\ pc = "writeMirror"
    /\ Len(CreateCalls) = 1
    /\ Len(AddCalls) = 1
    /\ RemotePlaylist(CreatedId).tracks = {"a", "b"}

\* C25. A run with no mirror candidate completes: when no remote call fails,
\* the run that created the mirror and added the saved tracks to it ends by
\* returning, having written the mirror's document and fetched the shows,
\* and not by raising an error.
NoCandidateCompletes ==
    (/\ RunEnded
     /\ accessToken = "token"
     /\ runFaults = 0
     /\ ~CandidateExists) =>
        /\ pc = "done"
        /\ thrown = NoError
        /\ \E i \in 1..Len(writes) :
              writes[i].name = "playlists/" /\ writes[i].key = CreatedId
        /\ \E i \in 1..Len(writes) : writes[i].name = "shows"

\* C26. Every playlist is persisted: when a run in which no remote call
\* failed and which had a mirror candidate has returned, a playlists/<id>
\* document has been written for every playlist it had to process, the
\* mirror included, also when several of them satisfy the mirror predicate.
EveryPlaylistPersisted ==
    (/\ pc = "done"
     /\ runFaults = 0
     /\ CandidateExists) =>
        ToProcessIds \subseteq WrittenPlaylistIds

\* The shows a detail request has been issued for, and the pauses of the
\* playlist loop and the show loop that have elapsed.
ShowFetchedIds ==
    {r.id : r \in {q \in BagToSet(requests) : q.endpoint = "SHOW"}}

LoopPauses == SelectSeq(sleeps, LAMBDA ms : ms = 500)

\* C27. Pacing: when the detail fetch of a playlist starts, no request is in
\* flight and a 500 ms sleep has elapsed after each playlist detail fetch
\* before it; likewise when the detail fetch of a show starts, a 500 ms
\* sleep has elapsed after every playlist and show detail fetch before it;
\* and when a mutation chunk call is issued, a 100 ms sleep has elapsed
\* after every chunk call before it.
Pacing ==
    [][/\ DetailFetchedIds' # DetailFetchedIds =>
             /\ inflight = {}
             /\ Len(LoopPauses) = Cardinality(DetailFetchedIds)
       /\ ShowFetchedIds' # ShowFetchedIds =>
             /\ inflight = {}
             /\ Len(LoopPauses) =
                   Cardinality(DetailFetchedIds) + Cardinality(ShowFetchedIds)
       /\ Len(TrackCalls') > Len(TrackCalls) =>
             Len(SelectSeq(sleeps, LAMBDA ms : ms = 100)) = Len(TrackCalls)]_vars

\* The second show's detail fetch has completed in a run that fetched two
\* playlists and issued a remove and an add call.
PacingWitness ==
    /\ pc = "showSleep"
    /\ idx = 2
    /\ Cardinality(DetailFetchedIds) = 2
    /\ Cardinality(ShowFetchedIds) = 2
    /\ Len(LoopPauses) = 3
    /\ Len(TrackCalls) = 2
    /\ Len(ChunkDelays) = 2

\* The parent request and the request for the first page of the children.
AssemblyFirstRequests ==
    <<DetailRequest(ParentEndpoint(dtKind), 0, 0),
      DetailRequest(ChildEndpoint(dtKind), 50, 0)>>

\* C28. Child-resource assembly: getPlaylist and getShow issue the parent
\* request and the request for the first page of the children before either
\* is answered, and whatever the order in which the parent and the pages of
\* the children arrive, the object returned has the parent's fields with
\* their values, except that the embedded child list is replaced by the
\* complete child list in the remote's order.
ChildAssembly ==
    /\ dtPc \in {"children", "parent", "returned"} =>
          SubSeq(dtRequests, 1, 2) = AssemblyFirstRequests
    /\ (dtPc = "children" /\ dtArrival = <<>>) => dtPending = {1, 2}
    /\ dtPc = "returned" =>
          /\ DOMAIN dtResult = DOMAIN dtParent
          /\ \A f \in DOMAIN dtParent \ {"tracks", "episodes"} :
                dtResult[f] = dtParent[f]
          /\ dtKind = "playlist" => dtResult.tracks = dtChildren
          /\ dtKind = "show" => dtResult.episodes = dtChildren

\* getShow has returned a show of 101 episodes, of which the parent object
\* embedded one, the parent having arrived after every page of the episodes,
\* the pages out of order.
ChildAssemblyWitness ==
    /\ dtPc = "returned"
    /\ dtKind = "show"
    /\ Len(dtChildren) = 101
    /\ Len(dtParent.episodes.items) = 1
    /\ dtArrival = <<2, 4, 3, 1>>
    /\ dtResult.episodes = dtChildren

\* C29. Diff after all fetches: when the run issues a create, remove or add
\* call, no request is in flight, the saved tracks have been fetched and
\* written, the detail fetch of every playlist to process has completed and
\* the desired and the current URI set are what the remote holds; the two
\* sets change only while no request is in flight and never once a call has
\* been issued.
DiffAfterFetches ==
    [][/\ Len(mutations') > Len(mutations) =>
             /\ inflight = {}
             /\ \E i \in 1..Len(writes) : writes[i].name = "tracks"
             /\ savedTrackUris = library
             /\ DetailFetchedIds = ToProcessIds
             /\ savedTracksPlaylist.defined /\ mutations = <<>> =>
                   playlistTrackUris =
                      RemotePlaylist(savedTracksPlaylist.id).tracks \ {NullTrack}
             /\ savedTrackUris' = savedTrackUris
             /\ playlistTrackUris' = playlistTrackUris
       /\ (\/ savedTrackUris' # savedTrackUris
           \/ playlistTrackUris' # playlistTrackUris) =>
             /\ inflight = {}
             /\ inflight' = {}
             /\ mutations = <<>>]_vars

\* The run has issued its first call, a remove, after the detail fetches of
\* both playlists of the account.
DiffAfterFetchesWitness ==
    /\ Len(mutations) = 1
    /\ mutations[1].op = "remove"
    /\ Cardinality(DetailFetchedIds) = 2
    /\ savedTrackUris = library
    /\ library # {}
    /\ pc = "deleteChunks"

\* The first position at which two key lists differ (0 when they are alike).
FirstDifference(ka, kb) ==
    IF ka = kb THEN 0
    ELSE CHOOSE i \in 1..Len(ka) :
            /\ ka[i] # kb[i]
            /\ \A j \in 1..(i - 1) : ka[j] = kb[j]

\* The array sorted is in the order of the key lists: the item whose key is
\* smaller at the first position where the keys differ comes first.
SortedByKeys(keys(_)) ==
    LET a == sortInput[1]
        b == sortInput[2]
        i == FirstDifference(keys(a), keys(b))
    IN  i # 0 =>
           sortResult = (IF keys(a)[i] < keys(b)[i] THEN <<a, b>> ELSE <<b, a>>)

\* The keys the statement lists for a saved track: added_at (later first),
\* first artist's name, album name, disc number, track number.
StatedTrackKeys(t) ==
    <<0 - t.added_at, BaseRank(t.track.artists[1].name),
      BaseRank(t.track.album.name), t.track.disc_number,
      t.track.track_number>>

\* The keys with the ids the comparator looks at when two names tie.
TrackKeys(t) ==
    <<0 - t.added_at,
      BaseRank(t.track.artists[1].name), BaseRank(t.track.artists[1].id),
      BaseRank(t.track.album.name), BaseRank(t.track.album.id),
      t.track.disc_number, t.track.track_number>>

\* C30 as stated. Track priority chain: two saved tracks are ordered by
\* added_at, later first; if those tie, by first-listed artist name, case
\* ignored; if those tie, by album name; then by disc number ascending; then
\* by track number ascending; each level deciding only when all earlier
\* levels tie.
TrackPriorityAsStated ==
    (sortPc = "done" /\ sortKind = "tracks") => SortedByKeys(StatedTrackKeys)

\* C30 amended. The chain is added_at (later first), first-listed artist
\* name (case ignored), that artist's id, album name, album id, disc number
\* ascending, track number ascending, each level deciding only when all
\* earlier levels tie.
TrackPriorityChain ==
    (sortPc = "done" /\ sortKind = "tracks") => SortedByKeys(TrackKeys)

\* Two tracks saved on the same day by two artists whose names differ in
\* case alone have been sorted: the artist ids decided, against the order
\* of the album names.
TrackPriorityWitness ==
    /\ sortPc = "done"
    /\ sortKind = "tracks"
    /\ sortInput[1].added_at = sortInput[2].added_at
    /\ sortInput[1].track.artists[1] = [name |-> "Ab", id |-> "2b"]
    /\ sortInput[2].track.artists[1] = [name |-> "ab", id |-> "1a"]
    /\ sortInput[1].track.album.name = "Ab"
    /\ sortInput[2].track.album.name = "b"
    /\ sortResult = <<sortInput[2], sortInput[1]>>

\* The keys of a playlist in the order the statement lists them: owner
\* display name ("" when there is none), owner id, name, id.
PlaylistKeys(p) ==
    <<BaseRank(IF p.owner.display_name = NoDisplayName THEN ""
               ELSE p.owner.display_name),
      BaseRank(p.owner.id), BaseRank(p.name), BaseRank(p.id)>>

\* The ids of a sequence of playlists.
IdsOf(list) == [i \in 1..Len(list) |-> list[i].id]

\* C31, as stated. The loop writes the playlists in exactly the order
\* getAllSavedPlaylists returned them in.
PlaylistOrderAsStated ==
    (sortKind = "playlists" /\ sortPc = "written") =>
        sortWritten = IdsOf(sortResult)

\* C31. Playlist order: getAllSavedPlaylists returns the playlists ordered
\* by owner display name (a missing name counting as empty), then owner id,
\* then playlist name, then playlist id; the loop calls getPlaylist in
\* exactly that order and writes the playlists that are no mirror in that
\* order, and the mirror's document is written after the loop, whatever the
\* mirror's place in the order.
PlaylistOrder ==
    (sortKind = "playlists" /\ sortPc \in {"done", "written"}) =>
        LET seen == SubSeq(sortResult, 1, sortLoopI - 1)
            late == IF sortPc = "written" /\ sortMirror # UndefinedId
                    THEN <<sortMirror>> ELSE <<>>
        IN  /\ SortedByKeys(PlaylistKeys)
            /\ sortFetched = IdsOf(seen)
            /\ sortWritten =
                  IdsOf(SelectSeq(seen, LAMBDA p : ~IsMirror(p))) \o late

\* The mirror sorts first, its owner having no display name, and its
\* document is written after the one of the playlist that sorts second.
PlaylistOrderWitness ==
    /\ sortPc = "written"
    /\ sortKind = "playlists"
    /\ sortInput[1].owner.display_name = "b"
    /\ sortInput[1].name = "Ab"
    /\ sortInput[1].id = "1a"
    /\ sortInput[2].owner.display_name = NoDisplayName
    /\ IsMirror(sortInput[2])
    /\ sortFetched = <<sortInput[2].id, sortInput[1].id>>
    /\ sortWritten = <<sortInput[1].id, sortInput[2].id>>

\* C32. Mutation result: addPlaylistTracks/deletePlaylistTracks called with
\* no tracks return the snapshot id they were passed, having issued no call;
\* called with tracks they return, when they return, the body of the last
\* chunk call issued: the snapshot id that call produced, or the error body
\* it was answered with.
MutationResult ==
    mtPc = "returned" =>
        IF Len(mtTracks) = 0
        THEN /\ mtCalls = <<>>
             /\ mtResponse = SnapshotResponse(TRUE, mtSnapshot)
        ELSE /\ mtCalls # <<>>
             /\ Len(mtAnswers) = Len(mtCalls)
             /\ mtResponse =
                   (IF mtAnswers[Len(mtAnswers)] = "ok"
                    THEN SnapshotResponse(TRUE, mtSnapshot)
                    ELSE SnapshotResponse(FALSE, 0))

\* Three chunk calls, the second answered with an error body: the result is
\* the third call's snapshot id.
MutationResultWitness ==
    /\ mtPc = "returned"
    /\ Len(mtCalls) = 3
    /\ mtAnswers = <<"ok", "errJson", "ok">>
    /\ mtResponse = SnapshotResponse(TRUE, mtSnapshot)
    /\ mtResponse.snapshot_id > 1

\* C33. Null tracks are filtered: the items of the mirror whose track is
\* null put no element into the current set, and no remove or add call
\* carries a null or an undefined URI.
NullTracksFiltered ==
    /\ NullTrack \notin playlistTrackUris
    /\ \A i \in 1..Len(TrackCalls) :
          /\ TrackCalls[i].uris # <<>>
          /\ \A j \in 1..Len(TrackCalls[i].uris) :
                TrackCalls[i].uris[j] \in TrackUris

\* The mirror holds a track and an unavailable item, the library another
\* track: the remove call carries the one track, the add call the other.
NullTracksWitness ==
    /\ pc = "done"
    /\ savedTracksPlaylistFull.defined
    /\ NullTrack \in Range(savedTracksPlaylistFull.tracks)
    /\ [i \in 1..Len(mutations) |-> <<mutations[i].op, mutations[i].uris>>]
         = << <<"remove", <<"a">> >>, <<"add", <<"b">> >> >>

\* C34. Unbounded cursor loop: against a remote every page of which carries
\* a cursor, getAllFollowing never returns and goes on issuing page
\* requests (for as long as it is followed, and unless a request is
\* answered with a failure); against a remote whose cursor chain ends, a
\* call whose requests are all answered with pages returns. It returns only
\* if the chain ends.
UnboundedCursorLoop ==
    /\ [](followEndless => fwPc # "done")
    /\ [](followEndless =>
             <>(Len(fwRequests) = MaxRequests \/ fwPc = "threw"))
    /\ [](~followEndless => <>(fwPc \in {"done", "threw"}))
    /\ [](fwPc = "threw" => fwFaults > 0)

\* Against an endless remote of one page the call has issued as many requests
\* as it is followed for, every one answered with a page, and its loop test
\* still holds.
UnboundedCursorWitness ==
    /\ followEndless
    /\ followChain = <<7>>
    /\ fwPc = "loop"
    /\ fwFaults = 0
    /\ Len(fwRequests) = MaxRequests
    /\ Len(fwItems) = 7 * MaxRequests
    /\ CursorContinues(fwAfter)

\* The token exchange requests the run has issued.
TokenRequests ==
    CopiesIn(Request("POST", "TOKEN", "", 0, 0, "", <<>>), requests)

\* C35. Single token: a run issues one token exchange request and no more;
\* it has been answered before any resource or mutation request is issued,
\* and every later request carries, as its bearer token, what the exchange
\* returned. (A run that stops at the configuration check issues none.)
SingleToken ==
    /\ TokenRequests <= 1
    /\ TokenRequests = 1 <=>
          (pc \notin {"start", "token"} /\ thrown.missing = <<>>)
    /\ \A r \in BagToSet(requests) :
          r.endpoint # "TOKEN" =>
             /\ TokenRequests = 1
             /\ accessToken \in {"token", UndefinedToken}
             /\ r.auth = <<"Bearer", accessToken>>

\* A run has ended after mutations: one token exchange, and the resource and
\* mutation requests all carry the token.
SingleTokenWitness ==
    /\ pc = "done"
    /\ TokenRequests = 1
    /\ Len(mutations) = 2
    /\ \E r \in BagToSet(requests) :
          r.method = "DELETE" /\ r.auth = <<"Bearer", "token">>
    /\ \E r \in BagToSet(requests) :
          r.endpoint = "SHOWS" /\ r.auth = <<"Bearer", "token">>

\* The items that were in the remote collection during the whole call.
PresentThroughout ==
    IF remoteChange.op = "insert"
    THEN Range(collection) \ {remoteChange.item}
    ELSE Range(collection)

\* C36. Pagination under concurrent remote change: getAllSaved returns every
\* item at most once and misses no item that was in the collection during
\* the whole call, also when an item is inserted into or deleted from the
\* collection between the first page's response and the follow-up pages'
\* responses (the remote serving pages of 50).
PaginationUnderChange ==
    (pgPc = "done" /\ serverCap = PageLimit) =>
        /\ NoDuplicates(pgResult)
        /\ PresentThroughout \subseteq Range(pgResult)

\* C37. No write race on one file: the saved shows having distinct ids, no
\* two writeJSON calls of the show loop are made with the same document
\* name.
NoWriteRace ==
    \A i, j \in 1..Len(slWrites) :
       i # j => slWrites[i] # slWrites[j]

\* C38. The earlier compareTrack is a consistent ordering: for saved tracks
\* with equal added_at, a before b and b before c imply a before c.
EarlierTrackOrderConsistent ==
    (/\ etPc = "done"
     /\ etTracks[1].added_at = etTracks[2].added_at
     /\ etTracks[2].added_at = etTracks[3].added_at) =>
        ((etOrder.ab < 0 /\ etOrder.bc < 0) => etOrder.ac < 0)

============================================================================
